---- MODULE Spec2Model ----
(***************************************************************************)
(* A model of zipline's adjusted history loader                            *)
(* (zipline/data/us_equity_loader.py): the cache of Blocks kept by         *)
(* USEquityHistoryLoader, the adjustments it schedules for each Block and  *)
(* the window each Block advances.                                         *)
(*                                                                         *)
(* Rows, calendar positions and array indices are 0-based, as in the       *)
(* source: an array is a function on 0..n-1.  Ratios are integers (each    *)
(* event gets its own prime), so that the product carried by a row tells   *)
(* which adjustments were applied to it and how often.                     *)
(***************************************************************************)
EXTENDS Integers, Sequences, FiniteSets, TLC

\* ---------------------------------------------------------------- bounds
\* len(assets): the number of columns of the arrays a Filter computes on.
NumAssets == 3

\* The last date of the index of an event frame; the first is 1.
LastDate == 5

\* The largest number of events of one sid given to an event frame.
MaxFrameEvents == 2

\* The largest number of Order objects created on a blotter.
MaxOrders == 2

\* Blotter.max_shares, int(1e+11) in the source, scaled down.
max_shares == 2

\* len(self._calendar): the number of sessions of the trading calendar.
CalLen == 42
\* Requests and events sit within MaxPos sessions of either end of the calendar.
MaxPos == 1
\* The one window size requested (the `size` argument of history).
WindowLength == 2
\* The adjustments reader holds at most this many events for the asset.
MaxEvents == 2

\* ------------------------------------------------------- program constants
\* prefetch_end_ix = min(end_ix + 40, len(cal) - 1)
\* The terms built on top of the initial ones.
MaxNewTerms == 2

\* The filters built by operators on top of the initial ones.
MaxNewFilters == 1

PrefetchLen == 40

\* ------------------------------------------------------------- utilities
Max(a, b) == IF a >= b THEN a ELSE b

Min(a, b) == IF a <= b THEN a ELSE b

\* len() of an array (a function on 0..n-1).
Size(arr) == Cardinality(DOMAIN arr)

\* Python's arr[a:b] for 0 <= a, b <= len(arr): empty when b <= a.
Slice(arr, a, b) == [i \in 0..(b - a - 1) |-> arr[a + i]]

\* ------------------------------------------------------- the collaborators
\* The date of the session at calendar position p.  Sessions are every other
\* day, so that a date is never mistaken for a position.
SessionDate(p) == 2 * p + 1

\* daily_reader._calendar: the ordered index of session dates.
Calendar == [p \in 0..(CalLen - 1) |-> SessionDate(p)]

\* Index.get_loc(dt): the position of dt in an index that holds it.
GetLoc(index, dt) == CHOOSE i \in DOMAIN index : index[i] = dt

\* A Python string, and the BoundColumn getattr(USEquityPricing, field) returns:
\* two values of different types, which never compare equal.
Str(s) == [type |-> "str", name |-> s]

Column(field) == [type |-> "BoundColumn", name |-> field]

\* daily_reader.load_raw_arrays([col], start, end, [asset])[0], column 0: the
\* raw values of the sessions from start to end, both included.
RawValue(field, p) == IF field = "volume" THEN 1001 + p ELSE 101 + p

LoadRawArrays(field, first_ix, last_ix) ==
    [i \in 0..(last_ix - first_ix) |-> RawValue(field, first_ix + i)]

\* ---------------------------------------------------------- request inputs
Assets == {1}

\* The fields requested: a price field, and the volume field.
PriceFields == {"close"}

Fields == PriceFields \cup {"volume"}

Sizes == {WindowLength}

Positions == (0..MaxPos) \cup {CalLen - 1}

Keys == Assets \X Fields \X Sizes

\* -------------------------------------------------- the adjustments reader
Primes == <<2, 3, 5, 7, 11, 13, 17, 19, 23, 29, 31, 37>>

\* The ratio of the i-th event of kind k (1 mergers, 2 dividends, 3 splits):
\* every event has its own prime.
Ratio(k, i) == Primes[k + 3 * (i - 1)]

\* The sessions the reader's events fall on: the second and third of the
\* calendar and the one before the last.
EventDates == {SessionDate(p) : p \in {1, 2, CalLen - 2}}

DateSeqs(n) == UNION {[1..m -> EventDates] : m \in 0..n}

\* get_adjustments_for_sid(kind, sid) returns rows (date, ratio), in reader order.
EventList(k, dates) == [i \in 1..Len(dates) |-> [dt |-> dates[i], ratio |-> Ratio(k, i)]]

Readers(n) ==
    {[present |-> TRUE, mergers |-> EventList(1, m), dividends |-> EventList(2, d),
      splits |-> EventList(3, s)] :
        <<m, d, s>> \in {t \in DateSeqs(n) \X DateSeqs(n) \X DateSeqs(n) :
                            Len(t[1]) + Len(t[2]) + Len(t[3]) <= n}}

\* adjustment_reader = None
NoReader == [present |-> FALSE, mergers |-> <<>>, dividends |-> <<>>, splits |-> <<>>]

\* ------------------------------------------------------------------ state
VARIABLES
    adjustments_reader,   \* self._adjustments_reader and the events it holds
    blocks,               \* self._daily_window_blocks: key -> Block
    lastCall,             \* the last call of history: its arguments and outcome
    terms,                \* the Term objects alive, in order of creation
    lastTerm,             \* the last construction or operator call and its outcome
    args,                 \* the arguments of a _compute or frame call
    out,                  \* what the call returned, once made
    objects,              \* the Order objects created, by reference (1, 2, ...)
    open_orders,          \* Blotter.open_orders: sid -> list of Orders
    orders,               \* Blotter.orders: order id -> Order
    new_orders,           \* Blotter.new_orders: list of Orders
    lastOp                \* the last call on the blotter and its outcome

vars == <<adjustments_reader, blocks, lastCall, terms, lastTerm, args, out,
          objects, open_orders, orders, new_orders, lastOp>>

computeVars == <<args, out>>

blotterVars == <<objects, open_orders, orders, new_orders, lastOp>>

\* ------------------------------------------------- adjustments and windows
\* zipline.lib.adjustment.Float64Multiply(first_row, last_row, first_col,
\* last_col, value)
Float64Multiply(first_row, last_row, first_col, last_col, value) ==
    [first_row |-> first_row, last_row |-> last_row,
     first_col |-> first_col, last_col |-> last_col, value |-> value]

\* Multiply.mutate: scale the closed rectangle [first_row, last_row] x
\* [first_col, last_col]; the array has the one column 0.
Mutate(adj, data) ==
    [r \in DOMAIN data |->
        IF /\ adj.first_row <= r /\ r <= adj.last_row
           /\ adj.first_col <= 0 /\ 0 <= adj.last_col
        THEN data[r] * adj.value
        ELSE data[r]]

RECURSIVE MutateAll(_, _, _)
\* The adjustments of one row, applied in list order from the i-th on.
MutateAll(data, adjlist, i) ==
    IF i > Len(adjlist) THEN data
    ELSE MutateAll(Mutate(adjlist[i], data), adjlist, i + 1)

\* AdjustedArrayWindow(data, dtype, adjustments, offset, window_length).  The
\* cursor rests one row before the initial anchor `offset`: the first advance
\* emits the window ending at row `offset`.  `applied` is the history of what
\* the window applied: the anchor of the advance and the adjustment.
AdjustedArrayWindow(data, dtype_, adjustments, offset, window_length) ==
    [data |-> data, dtype |-> dtype_, adjustments |-> adjustments,
     anchor |-> offset - 1, max_anchor |-> Size(data) - 1,
     window_length |-> window_length, applied |-> <<>>]

\* Advancing past the last row of the array is OutOfBounds.
CanAdvance(w) == w.anchor + 1 <= w.max_anchor

\* next(window): move the anchor one row on and apply the adjustments keyed at
\* the new anchor, in list order.
WindowNext(w) ==
    LET a == w.anchor + 1
        due == IF a \in DOMAIN w.adjustments THEN w.adjustments[a] ELSE <<>>
    IN [w EXCEPT !.anchor = a,
                 !.data = MutateAll(@, due, 1),
                 !.applied = @ \o [i \in 1..Len(due) |-> [anchor |-> a, adj |-> due[i]]]]

\* The view next(window) returns: the last window_length rows ending at the
\* anchor (fewer when the array has fewer rows before it), column 0.
View(w) == Slice(w.data, Max(0, w.anchor - w.window_length + 1), w.anchor + 1)

\* ------------------------------------------------------------------ Block
\* self.current = next(self.window), given the window next() leaves.
SetCurrent(block, w) == [block EXCEPT !.window = w, !.current = View(w)]

\* Block.__init__
Block(window, cal_start, cal_end) ==
    SetCurrent([window |-> window, cal_start |-> cal_start, cal_end |-> cal_end,
                current |-> <<>>],
               WindowNext(window))

RECURSIVE BlockGetAdvanceFirst(_, _)
\* Block.get with the loop test after the body (do ... while): it advances
\* once before it compares the anchor.
BlockGetAdvanceFirst(block, end_ix) ==
    IF CanAdvance(block.window)
    THEN IF WindowNext(block.window).anchor < end_ix - block.cal_start
         THEN BlockGetAdvanceFirst(SetCurrent(block, WindowNext(block.window)), end_ix)
         ELSE [block |-> SetCurrent(block, WindowNext(block.window)), error |-> "none"]
    ELSE [block |-> block, error |-> "OutOfBounds"]

RECURSIVE BlockGetThroughTarget(_, _)
\* Block.get with the loop test `window.anchor <= anchor`: it advances one
\* row past the target.
BlockGetThroughTarget(block, end_ix) ==
    IF block.window.anchor <= end_ix - block.cal_start
    THEN IF CanAdvance(block.window)
         THEN BlockGetThroughTarget(SetCurrent(block, WindowNext(block.window)), end_ix)
         ELSE [block |-> block, error |-> "OutOfBounds"]
    ELSE [block |-> block, error |-> "none"]

RECURSIVE BlockGet(_, _)
\* Block.get: the block as the loop leaves it, and the error it raised.
\* The value returned is block.current (column 0).
BlockGet(block, end_ix) ==
    IF block.window.anchor < end_ix - block.cal_start
    THEN IF CanAdvance(block.window)
         THEN BlockGet(SetCurrent(block, WindowNext(block.window)), end_ix)
         ELSE [block |-> block, error |-> "OutOfBounds"]
    ELSE [block |-> block, error |-> "none"]

\* ------------------------------------------------- USEquityHistoryLoader
\* start < dt <= end
InRange(dt, start, end) == start < dt /\ dt <= end

\* adjs[end_loc] = [adjustment]: the dict entry of the row is set to a new
\* one-element list.
SetAdj(adjs, end_loc, adjustment) ==
    [k \in (DOMAIN adjs) \cup {end_loc} |->
        IF k = end_loc THEN <<adjustment>> ELSE adjs[k]]

\* EndLoc without the step back of mergers and splits: every event keyed at
\* its own row.
EndLocAtEventRow(kind, days, dt) == GetLoc(days, dt)

\* The row an event dated dt is keyed at: days.get_loc(dt) for a dividend,
\* max(days.get_loc(dt) - 1, 0) for a merger or a split.
EndLoc(kind, days, dt) ==
    IF kind = "dividends" THEN GetLoc(days, dt)
    ELSE Max(GetLoc(days, dt) - 1, 0)

\* adjs[end_loc] = [Float64Multiply(0, end_loc, 0, 0, ratio)]
Schedule(adjs, end_loc, ratio) ==
    SetAdj(adjs, end_loc, Float64Multiply(0, end_loc, 0, 0, ratio))

RECURSIVE ScheduleEvents(_, _, _, _, _)
\* One of the three loops `for m in mergers`, `for d in divs`, `for s in
\* splits`, from the i-th event on; start = days[0], end = days[-1].
ScheduleEvents(adjs, kind, events, i, days) ==
    IF i > Len(events) THEN adjs
    ELSE IF InRange(events[i].dt, days[0], days[Size(days) - 1])
         THEN ScheduleEvents(Schedule(adjs, EndLoc(kind, days, events[i].dt), events[i].ratio),
                             kind, events, i + 1, days)
         ELSE ScheduleEvents(adjs, kind, events, i + 1, days)

\* _get_adjustments_in_range(asset, days, field) on a non-empty days; `field`
\* is whatever the caller passes, compared with the string 'volume'.  (For
\* the volume field the split ratio is s[1] / 1.0, the ratio itself.)
GetAdjustmentsInRange(asset, days, field) ==
    LET empty == [k \in {} |-> <<>>]
        withMergers == IF field # Str("volume")
                       THEN ScheduleEvents(empty, "mergers", adjustments_reader.mergers, 1, days)
                       ELSE empty
        withDivs == IF field # Str("volume")
                    THEN ScheduleEvents(withMergers, "dividends", adjustments_reader.dividends, 1, days)
                    ELSE withMergers
    IN ScheduleEvents(withDivs, "splits", adjustments_reader.splits, 1, days)

\* The reuse condition with the end boundary left out.
CoversBelowEnd(block, start_ix, end_ix) ==
    start_ix >= block.cal_start /\ end_ix < block.cal_end

\* The reuse condition accepting an end one session past cal_end.
CoversPastEnd(block, start_ix, end_ix) ==
    start_ix >= block.cal_start /\ end_ix <= block.cal_end + 1

\* if start_ix >= block.cal_start and end_ix <= block.cal_end: return block
Covers(block, start_ix, end_ix) ==
    start_ix >= block.cal_start /\ end_ix <= block.cal_end

\* No prefetch: the fetch ends at the requested end.
PrefetchEndIxNone(end_ix) == Min(end_ix, Size(Calendar) - 1)

\* prefetch_end_ix = min(end_ix + 40, len(cal) - 1)
PrefetchEndIx(end_ix) == Min(end_ix + PrefetchLen, Size(Calendar) - 1)

\* days = cal[start_ix:prefetch_end_ix]
Days(start_ix, prefetch_end_ix) == Slice(Calendar, start_ix, prefetch_end_ix)

\* The window built with initial anchor 1 instead of 0 (0 when the array has
\* one row only).
NewWindowOffsetOne(array, dtype_, adjs, size) ==
    AdjustedArrayWindow(array, dtype_, adjs, Min(1, Size(array) - 1), size)

\* window = window_type(array, dtype_, adjs, 0, size)
NewWindow(array, dtype_, adjs, size) == AdjustedArrayWindow(array, dtype_, adjs, 0, size)

\* The reader test that takes every loader to have a reader.
HasReaderAlways(reader) == TRUE

\* if self._adjustments_reader:
HasReader(reader) == reader.present

\* The calls of get_adjustments_for_sid one _get_adjustments_in_range makes:
\* mergers and dividends inside `if field != 'volume'`, splits always.
AdjustmentQueries(field) == IF field # Str("volume") THEN 3 ELSE 1

\* The rebuild of _ensure_block, on a non-empty days: fetch, compute the
\* adjustments, build the window and the Block.
BuildBlock(asset, size, start_ix, prefetch_end_ix, field) ==
    Block(NewWindow(LoadRawArrays(field, start_ix, prefetch_end_ix),
                    IF field = "volume" THEN "int64" ELSE "float64",
                    IF HasReader(adjustments_reader)
                    THEN GetAdjustmentsInRange(asset, Days(start_ix, prefetch_end_ix),
                                               Column(field))
                    ELSE [k \in {} |-> <<>>],
                    size),
          start_ix, prefetch_end_ix)

\* _ensure_block: the block it returns, whether it called load_raw_arrays and
\* over which positions, how many times it called get_adjustments_for_sid,
\* and the error it raised.  days[0] of an empty days
\* is an IndexError, raised after the fetch and before any Block is built.
EnsureBlock(asset, start, end, size, start_ix, end_ix, field) ==
    IF /\ <<asset, field, size>> \in DOMAIN blocks
       /\ Covers(blocks[<<asset, field, size>>], start_ix, end_ix)
    THEN [block |-> blocks[<<asset, field, size>>], error |-> "none", fetched |-> FALSE,
          adj_queries |-> 0,
          fetch_first |-> 0, fetch_last |-> 0]
    ELSE [block |-> IF HasReader(adjustments_reader) /\ start_ix >= PrefetchEndIx(end_ix)
                    THEN <<>>
                    ELSE BuildBlock(asset, size, start_ix, PrefetchEndIx(end_ix), field),
          error |-> IF HasReader(adjustments_reader) /\ start_ix >= PrefetchEndIx(end_ix)
                    THEN "IndexError" ELSE "none",
          adj_queries |-> IF HasReader(adjustments_reader) /\ start_ix < PrefetchEndIx(end_ix)
                          THEN AdjustmentQueries(Column(field)) ELSE 0,
          fetched |-> TRUE, fetch_first |-> start_ix, fetch_last |-> PrefetchEndIx(end_ix)]

\* The end of history with the cache cleared of every other entry.
ServeClearing(key, call, e, g) ==
    IF e.error # "none"
    THEN /\ blocks' = blocks
         /\ lastCall' = call @@ [error |-> e.error, result |-> <<>>]
    ELSE /\ blocks' = [k \in {key} |-> g.block]
         /\ lastCall' = call @@ [error |-> g.error,
                                 result |-> IF g.error = "none"
                                            THEN g.block.current ELSE <<>>]

\* The end of history: block.get(end_ix) on the Block _ensure_block returned
\* (e), which is the object the cache holds.
Serve(key, call, e, g) ==
    IF e.error # "none"
    THEN /\ blocks' = blocks
         /\ lastCall' = call @@ [error |-> e.error, result |-> <<>>]
    ELSE /\ blocks' = [k \in (DOMAIN blocks) \cup {key} |->
                          IF k = key THEN g.block ELSE blocks[k]]
         /\ lastCall' = call @@ [error |-> g.error,
                                 result |-> IF g.error = "none"
                                            THEN g.block.current ELSE <<>>]

\* history(asset, start, end, size, field)
History(asset, start, end, size, field) ==
    \E start_ix \in {GetLoc(Calendar, start)}, end_ix \in {GetLoc(Calendar, end)} :
      \E e \in {EnsureBlock(asset, start, end, size, start_ix, end_ix, field)} :
        \E g \in {IF e.error = "none" THEN BlockGet(e.block, end_ix)
                  ELSE [block |-> e.block, error |-> e.error]} :
          /\ Serve(<<asset, field, size>>,
                   [op |-> "history", key |-> <<asset, field, size>>,
                    start_ix |-> start_ix, end_ix |-> end_ix,
                    repeated |-> /\ lastCall.op = "history"
                                 /\ lastCall.key = <<asset, field, size>>
                                 /\ lastCall.start_ix = start_ix
                                 /\ lastCall.end_ix = end_ix,
                    fetched |-> e.fetched, adj_queries |-> e.adj_queries,
                    fetch_first |-> e.fetch_first, fetch_last |-> e.fetch_last],
                   e, g)
          /\ UNCHANGED <<adjustments_reader, terms, lastTerm, computeVars, blotterVars>>

\* ------------------------------------------------------------ term graph
\* The dtypes of terms.
bool_dtype == "bool"

float64_dtype == "float64"

\* A Term object: its class, inputs and mask (objects, by position in
\* `terms`), its window_length and dtype, the percentile bounds of a
\* PercentileFilter (min, max) and the expression of a NumExprFilter.
\* mask 0 is no mask given.
TermObject(type, inputs, mask, window_length, dtype, percentiles, expr) ==
    [type |-> type, inputs |-> inputs, mask |-> mask, window_length |-> window_length,
     dtype |-> dtype, percentiles |-> percentiles, expr |-> expr]

\* The objects that exist before any term is built: a column and a factor
\* over it.
BaseTerms ==
    << TermObject("BoundColumn", <<>>, 0, 0, float64_dtype, <<>>, <<>>),
       TermObject("Factor", <<1>>, 0, 2, float64_dtype, <<>>, <<>>) >>

NoTerm ==
    [op |-> "none", self |-> 0, other |-> 0, other_kind |-> "none", symbol |-> "",
     min_percentile |-> 0, max_percentile |-> 0, mask |-> 0, dtype |-> "",
     result |-> 0, created |-> FALSE, error |-> "none"]

\* No _compute or frame call.
NoArgs == [op |-> "none"]

NoOut == [done |-> FALSE, error |-> "none", value |-> <<>>]

IdleCompute == args = NoArgs /\ out = NoOut

NoOp == [op |-> "none", order_id |-> 0, sid |-> 0, amount |-> 0, splits |-> <<>>,
         event |-> "", error |-> "none", result |-> 0]

\* Blotter.__init__: no order.
InitBlotter ==
    /\ objects = <<>>
    /\ open_orders = [sid \in {} |-> <<>>]
    /\ orders = [id \in {} |-> 0]
    /\ new_orders = <<>>
    /\ lastOp = NoOp

\* No term built yet.
InitGraph == terms = BaseTerms /\ lastTerm = NoTerm /\ IdleCompute /\ InitBlotter

NoCall ==
    [op |-> "none", key |-> <<>>, start_ix |-> 0, end_ix |-> 0, repeated |-> FALSE,
     fetched |-> FALSE, adj_queries |-> 0,
     fetch_first |-> 0, fetch_last |-> 0, error |-> "none", result |-> <<>>]

\* USEquityHistoryLoader.__init__: an empty cache; the reader, if any, holds
\* at most n events of the asset.
InitLoader(n) ==
    /\ adjustments_reader \in Readers(n) \cup {NoReader}
    /\ blocks = [k \in {} |-> <<>>]
    /\ lastCall = NoCall

\* A call of history for one of the fields, between two sessions.
HistoryCall(fields) ==
    \E asset \in Assets, field \in fields, size \in Sizes,
       start_ix \in Positions, end_ix \in Positions :
        /\ start_ix <= end_ix
        /\ History(asset, Calendar[start_ix], Calendar[end_ix], size, field)

Init == InitLoader(MaxEvents) /\ InitGraph

Next == HistoryCall(PriceFields)

\* The loader serving one price field, over every reader of up to MaxEvents
\* events.
Spec == Init /\ [][Next]_vars

NextVolume == HistoryCall({"volume"})

\* The loader serving the volume field.
SpecVolume == Init /\ [][NextVolume]_vars

InitFields == InitLoader(0) /\ InitGraph

NextFields == HistoryCall(Fields)

\* The loader serving two fields, hence two cache keys, with a reader that
\* holds no event or with none.
SpecFields == InitFields /\ [][NextFields]_vars

\* ---------------------------------------------- term graph: construction
\* The classes that are Filters, and those that are NumericalExpressions.
FilterTypes == {"PercentileFilter", "NumExprFilter"}

NumericalExpressionTypes == {"NumExprFilter"}

IsFilter(oid) == terms[oid].type \in FilterTypes

IsNumericalExpression(oid) == terms[oid].type \in NumericalExpressionTypes

\* Term.static_identity: (class, inputs, window_length, mask, dtype).
StaticIdentity(type, inputs, mask, window_length, dtype) ==
    [type |-> type, inputs |-> inputs, mask |-> mask, window_length |-> window_length,
     dtype |-> dtype]

\* The identity of a class that adds nothing to Term.static_identity.
TermIdentity(base) == [base |-> base, percentiles |-> <<>>, expr |-> <<>>]

\* PercentileFilter.static_identity without max_percentile.
PercentileStaticIdentityNoMax(min_percentile, max_percentile, base) ==
    [base |-> base, percentiles |-> <<min_percentile>>, expr |-> <<>>]

\* PercentileFilter.static_identity: (super().static_identity(...),
\* min_percentile, max_percentile)
PercentileStaticIdentity(min_percentile, max_percentile, base) ==
    [base |-> base, percentiles |-> <<min_percentile, max_percentile>>, expr |-> <<>>]

\* NumericalExpression.static_identity: (super().static_identity(...), expr)
ExprStaticIdentity(expr, base) == [base |-> base, percentiles |-> <<>>, expr |-> expr]

\* The static identity an object was cached under.
IdentityOf(t) ==
    LET base == StaticIdentity(t.type, t.inputs, t.mask, t.window_length, t.dtype)
    IN IF t.type = "PercentileFilter"
       THEN PercentileStaticIdentity(t.percentiles[1], t.percentiles[2], base)
       ELSE IF t.type = "NumExprFilter" THEN ExprStaticIdentity(t.expr, base)
       ELSE TermIdentity(base)

\* Term.__new__: the object cached under the identity if there is one;
\* otherwise a new object, initialised and validated, cached unless the
\* validation raised.
TermNew(obj, identity, error) ==
    IF \E oid \in 1..Len(terms) : IdentityOf(terms[oid]) = identity
    THEN [terms |-> terms, created |-> FALSE, error |-> "none",
          result |-> CHOOSE oid \in 1..Len(terms) : IdentityOf(terms[oid]) = identity]
    ELSE IF error # "none"
    THEN [terms |-> terms, created |-> FALSE, error |-> error, result |-> 0]
    ELSE [terms |-> Append(terms, obj), created |-> TRUE, error |-> "none",
          result |-> Len(terms) + 1]

\* Filter._validate without the dtype test.
FilterValidateAny(dtype) == "none"

\* Filter._validate: the superclass validation, which passes for a term whose
\* inputs and window_length are given, then the dtype test.
FilterValidate(dtype) ==
    IF dtype # bool_dtype THEN "UnsupportedDataType" ELSE "none"

\* PercentileFilter._validate with min_percentile <= max_percentile.
PercentileValidateWeak(min_percentile, max_percentile, dtype) ==
    IF ~(0 <= min_percentile /\ min_percentile <= max_percentile /\ max_percentile <= 100)
    THEN "BadPercentileBounds"
    ELSE FilterValidate(dtype)

\* PercentileFilter._validate:
\* if not 0.0 <= self._min_percentile < self._max_percentile <= 100.0: raise
PercentileValidate(min_percentile, max_percentile, dtype) ==
    IF ~(0 <= min_percentile /\ min_percentile < max_percentile /\ max_percentile <= 100)
    THEN "BadPercentileBounds"
    ELSE FilterValidate(dtype)

\* PercentileFilter.__new__(cls, factor, min_percentile, max_percentile, mask)
PercentileFilter(factor, min_percentile, max_percentile, mask) ==
    TermNew(TermObject("PercentileFilter", <<factor>>, mask, 0, bool_dtype,
                       <<min_percentile, max_percentile>>, <<>>),
            PercentileStaticIdentity(min_percentile, max_percentile,
                StaticIdentity("PercentileFilter", <<factor>>, mask, 0, bool_dtype)),
            PercentileValidate(min_percentile, max_percentile, bool_dtype))

\* Latest(inputs=(column,), mask=mask): window_length = 1, the dtype of the
\* column.
Latest(column, mask) ==
    TermNew(TermObject("Latest", <<column>>, mask, 1, terms[column].dtype, <<>>, <<>>),
            TermIdentity(StaticIdentity("Latest", <<column>>, mask, 1, terms[column].dtype)),
            "none")

\* The percentile bounds tried: below 0, 0, inside, 100, above 100.
Percentiles == {-1, 0, 50, 100, 101}

Columns == {oid \in 1..Len(terms) : terms[oid].type = "BoundColumn"}

Factors == {oid \in 1..Len(terms) : terms[oid].type \in {"Factor", "Latest"}}

\* The masks a term can be given: none (0) or a Filter.
Masks == {0} \cup {oid \in 1..Len(terms) : IsFilter(oid)}

\* A construction or operator call, recorded.
Record(call, r) ==
    /\ terms' = r.terms
    /\ lastTerm' = call @@ [result |-> r.result, created |-> r.created, error |-> r.error]
                        @@ NoTerm
    /\ UNCHANGED <<adjustments_reader, blocks, lastCall, computeVars, blotterVars>>

\* column.latest / Latest(inputs=(column,), mask=mask)
NewLatest ==
    \E column \in Columns, mask \in Masks :
        \E r \in {Latest(column, mask)} :
           /\ Len(r.terms) <= Len(BaseTerms) + MaxNewTerms
           /\ Record([op |-> "Latest", self |-> column, mask |-> mask], r)

\* PercentileFilter(factor, min_percentile, max_percentile, mask)
NewPercentileFilter ==
    \E factor \in Factors, min_percentile \in Percentiles, max_percentile \in Percentiles,
       mask \in Masks :
        \E r \in {PercentileFilter(factor, min_percentile, max_percentile, mask)} :
           /\ Len(r.terms) <= Len(BaseTerms) + MaxNewTerms
           /\ Record([op |-> "PercentileFilter", self |-> factor, mask |-> mask,
                      min_percentile |-> min_percentile,
                      max_percentile |-> max_percentile], r)

\* A loader that serves no call.
IdleLoader ==
    /\ adjustments_reader = NoReader
    /\ blocks = [k \in {} |-> <<>>]
    /\ lastCall = NoCall

InitTerms == IdleLoader /\ InitGraph

NextTerms == NewLatest \/ NewPercentileFilter

\* The construction of Latest and PercentileFilter terms.
SpecTerms == InitTerms /\ [][NextTerms]_vars

\* ------------------------------------------------ term graph: operators
\* Expressions are sequences of tokens, the blanks of the format strings
\* left out: a variable x_i, a number, or a symbol (operator, parenthesis,
\* the text of a constant that is not an integer).
Var(i) == [kind |-> "x", ix |-> i, text |-> ""]

Num(n) == [kind |-> "num", ix |-> n, text |-> ""]

Sym(t) == [kind |-> "sym", ix |-> 0, text |-> t]

\* The operands of an operator: a term (by position in `terms`) or a Python
\* constant with its value and its str().
TermOperand(oid) == [kind |-> "term", value |-> oid, text |-> ""]

ConstantOperands ==
    { [kind |-> "int", value |-> 2, text |-> "2"],
      [kind |-> "bool", value |-> 1, text |-> "True"],
      [kind |-> "str", value |-> 0, text |-> "a"] }

\* FILTER_BINOPS
FILTER_BINOPS == {"&", "|"}

\* The position of an element in a tuple, 0-based (the element is in it).
IndexOf(tuple, elem) == (CHOOSE i \in 1..Len(tuple) : tuple[i] = elem) - 1

\* _ensure_element(tuple, elem): the tuple with the element in it, added at
\* the end when absent.
EnsureElement(tuple, elem) ==
    IF \E i \in 1..Len(tuple) : tuple[i] = elem THEN tuple ELSE Append(tuple, elem)

RECURSIVE MergeInputs(_, _, _)
\* The inputs of two expressions merged: those of the first, then those of
\* the second that the first has not.
MergeInputs(inputs, others, i) ==
    IF i > Len(others) THEN inputs
    ELSE MergeInputs(EnsureElement(inputs, others[i]), others, i + 1)

\* An expression with its variables renamed from the inputs it was written
\* over to their positions in new_inputs.
Rebind(expr, inputs, new_inputs) ==
    [n \in 1..Len(expr) |->
        IF expr[n].kind = "x" THEN Var(IndexOf(new_inputs, inputs[expr[n].ix + 1]))
        ELSE expr[n]]

\* NumericalExpression.build_binary_op(op, other): (self_expr, other_expr,
\* new_inputs), or BadBinaryOperator.
BuildBinaryOp(self, other) ==
    IF other.kind = "term" /\ IsNumericalExpression(other.value)
    THEN [error |-> "none", self_expr |-> terms[self].expr,
          new_inputs |-> MergeInputs(terms[self].inputs, terms[other.value].inputs, 1),
          other_expr |-> Rebind(terms[other.value].expr, terms[other.value].inputs,
                                MergeInputs(terms[self].inputs, terms[other.value].inputs, 1))]
    ELSE IF other.kind = "term"
    THEN [error |-> "none", self_expr |-> terms[self].expr,
          new_inputs |-> EnsureElement(terms[self].inputs, other.value),
          other_expr |-> <<Var(IndexOf(EnsureElement(terms[self].inputs, other.value),
                                       other.value))>>]
    ELSE IF other.kind \in {"int", "bool"}
    THEN [error |-> "none", self_expr |-> terms[self].expr,
          new_inputs |-> terms[self].inputs,
          other_expr |-> <<IF other.kind = "int" THEN Num(other.value) ELSE Sym(other.text)>>]
    ELSE [error |-> "BadBinaryOperator", self_expr |-> <<>>, new_inputs |-> <<>>,
          other_expr |-> <<>>]

\* NumExprFilter(expr=expr, binds=binds, dtype=dtype)
NumExprFilterNew(expr, binds, dtype) ==
    TermNew(TermObject("NumExprFilter", binds, 0, 0, dtype, <<>>, expr),
            ExprStaticIdentity(expr, StaticIdentity("NumExprFilter", binds, 0, 0, dtype)),
            FilterValidate(dtype))

\* NumExprFilter.create(expr, binds): cls(expr=expr, binds=binds,
\* dtype=bool_dtype)
NumExprFilterCreate(expr, binds) == NumExprFilterNew(expr, binds, bool_dtype)

\* raise BadBinaryOperator(op, self, other)
RaiseBadBinaryOperator ==
    [terms |-> terms, created |-> FALSE, error |-> "BadBinaryOperator", result |-> 0]

\* The branch of a NumericalExpression self: "({left}) {op} ({right})" over
\* the inputs build_binary_op returns.
ExpressionOperator(op, self, other) ==
    LET b == BuildBinaryOp(self, other)
    IN IF b.error # "none" THEN RaiseBadBinaryOperator
       ELSE NumExprFilterCreate(<<Sym("(")>> \o b.self_expr \o <<Sym(")"), Sym(op), Sym("(")>>
                                    \o b.other_expr \o <<Sym(")")>>,
                                b.new_inputs)

\* The Filter branch without the test `self is other`.
CombineFiltersAlike(op, self, other) ==
    NumExprFilterCreate(<<Var(0), Sym(op), Var(1)>>, <<self, other>>)

\* The branch of a Filter operand: "x_0 {op} x_0" over (self,) when self is
\* other, "x_0 {op} x_1" over (self, other) otherwise.
CombineFilters(op, self, other) ==
    IF self = other
    THEN NumExprFilterCreate(<<Var(0), Sym(op), Var(0)>>, <<self>>)
    ELSE NumExprFilterCreate(<<Var(0), Sym(op), Var(1)>>, <<self, other>>)

\* The constant written as str(constant), without int().
FoldConstantAsWritten(op, self, constant) ==
    NumExprFilterCreate(<<Var(0), Sym(op), Sym("("),
                          IF constant.kind = "int" THEN Num(constant.value)
                          ELSE Sym(constant.text),
                          Sym(")")>>, <<self>>)

\* The branch of an int operand: "x_0 {op} ({constant})" with
\* constant=int(other), over (self,).
FoldConstant(op, self, constant) ==
    NumExprFilterCreate(<<Var(0), Sym(op), Sym("("), Num(constant.value), Sym(")")>>,
                        <<self>>)

\* isinstance(other, int) with bool taken not to be an int.
IsIntNotBool(other) == other.kind = "int"

\* isinstance(other, int): true for bool as well.
IsInt(other) == other.kind \in {"int", "bool"}

\* binary_operator(op)(self, other)
BinaryOperator(op, self, other) ==
    IF IsNumericalExpression(self)
    THEN ExpressionOperator(op, self, other)
    ELSE IF other.kind = "term" /\ IsNumericalExpression(other.value)
    THEN ExpressionOperator(op, other.value, TermOperand(self))
    ELSE IF other.kind = "term" /\ IsFilter(other.value)
    THEN CombineFilters(op, self, other.value)
    ELSE IF IsInt(other)
    THEN FoldConstant(op, self, other)
    ELSE RaiseBadBinaryOperator

\* The graph the operators are tried on: the column, the factor, two
\* PercentileFilters over the factor and the NumExprFilter of their `&`.
OperatorTerms ==
    BaseTerms \o
    << TermObject("PercentileFilter", <<2>>, 0, 0, bool_dtype, <<0, 50>>, <<>>),
       TermObject("PercentileFilter", <<2>>, 0, 0, bool_dtype, <<50, 100>>, <<>>),
       TermObject("NumExprFilter", <<3, 4>>, 0, 0, bool_dtype, <<>>,
                  <<Var(0), Sym("&"), Var(1)>>) >>

\* The operands tried: each of these terms but the column, and the
\* constants.
Operands == {TermOperand(oid) : oid \in 2..Len(OperatorTerms)} \cup ConstantOperands

\* f op other, for a Filter f.
ApplyBinaryOperator ==
    \E op \in FILTER_BINOPS, self \in {oid \in 1..Len(OperatorTerms) : IsFilter(oid)},
       other \in Operands :
        \E r \in {BinaryOperator(op, self, other)} :
           /\ Len(r.terms) <= Len(OperatorTerms) + MaxNewFilters
           /\ Record([op |-> "binary", symbol |-> op, self |-> self,
                      other |-> other.value, other_kind |-> other.kind], r)

InitOperators ==
    IdleLoader /\ terms = OperatorTerms /\ lastTerm = NoTerm /\ IdleCompute /\ InitBlotter

NextOperators == ApplyBinaryOperator

\* The binary operators of Filter.
SpecOperators == InitOperators /\ [][NextOperators]_vars

\* The dtypes a NumExprFilter is asked for.
Dtypes == {bool_dtype, float64_dtype}

\* NumExprFilter(expr="~x_0", binds=(f,), dtype=dtype), for a Filter f.
NewNumExprFilter ==
    \E self \in {oid \in 1..Len(OperatorTerms) : IsFilter(oid)}, dtype \in Dtypes :
        \E r \in {NumExprFilterNew(<<Sym("~"), Var(0)>>, <<self>>, dtype)} :
           /\ Len(r.terms) <= Len(OperatorTerms) + MaxNewFilters
           /\ Record([op |-> "NumExprFilter", self |-> self, dtype |-> dtype], r)

NextFilters == ApplyBinaryOperator \/ NewNumExprFilter

\* The binary operators of Filter and the construction of a NumExprFilter of
\* a given dtype.
SpecFilters == InitOperators /\ [][NextFilters]_vars

\* ------------------------------------------------- filters: computation
\* A float64: nan, or a number.  Percentile thresholds are carried
\* multiplied by 100, which keeps the linear interpolation in integers.
NaN == [isnan |-> TRUE, value |-> 0]

Float64(v) == [isnan |-> FALSE, value |-> v]

\* a <= b on float64: false when either is nan.
LessEqual(a, b) == ~a.isnan /\ ~b.isnan /\ a.value <= b.value

AssetIxs == 0..(NumAssets - 1)

DateIxs == 0..1

\* arrays[0].copy().astype(float64): a new array, the input left as it is.
CopyAsFloat64(array) ==
    [r \in DOMAIN array |-> [c \in DOMAIN array[r] |-> Float64(array[r][c])]]

\* The masking left out: data as copied.
KeepMasked(data, mask) == data

\* data[~mask] = nan
SetNan(data, mask) ==
    [r \in DOMAIN data |->
        [c \in DOMAIN data[r] |-> IF mask[r][c] THEN data[r][c] ELSE NaN]]

\* The columns of a row that are not nan.
NotNan(row) == {c \in DOMAIN row : ~row[c].isnan}

\* The k-th smallest (from 0) of the numbers of a row.
KthSmallest(row, k) ==
    CHOOSE v \in {row[c].value : c \in NotNan(row)} :
        /\ Cardinality({c \in NotNan(row) : row[c].value < v}) <= k
        /\ k < Cardinality({c \in NotNan(row) : row[c].value <= v})

\* numpy.nanpercentile(row, q), times 100: over the n numbers of the row,
\* sorted, the value at position q/100 * (n - 1), interpolated linearly
\* between its two neighbours; nan for a row of nans.
NanPercentile(row, q) ==
    IF NotNan(row) = {} THEN NaN
    ELSE LET pos == q * (Cardinality(NotNan(row)) - 1)
         IN IF pos % 100 = 0 THEN Float64(100 * KthSmallest(row, pos \div 100))
            ELSE Float64(100 * KthSmallest(row, pos \div 100)
                         + (pos % 100) * (KthSmallest(row, (pos \div 100) + 1)
                                          - KthSmallest(row, pos \div 100)))

\* (lower_bounds <= data) & (data <= upper_bounds), row by row (axis=1,
\* keepdims=True).
Between(data, min_percentile, max_percentile) ==
    [r \in DOMAIN data |->
        [c \in DOMAIN data[r] |->
            /\ LessEqual(NanPercentile(data[r], min_percentile),
                         Float64(100 * data[r][c].value))
            /\ ~data[r][c].isnan
            /\ LessEqual(Float64(100 * data[r][c].value),
                         NanPercentile(data[r], max_percentile))]]

\* PercentileFilter._compute(arrays, dates, assets, mask): the array passed
\* in as the call leaves it, and the array returned.
PercentileCompute(array, mask, min_percentile, max_percentile) ==
    [array |-> array,
     value |-> Between(SetNan(CopyAsFloat64(array), mask), min_percentile, max_percentile)]

\* The values of the input arrays.
Values == {1, 2, 3}

\* The arrays tried: any first row, and a second row that mirrors it.
Arrays ==
    {[r \in DateIxs |-> [c \in AssetIxs |-> IF r = 0 THEN row[c] ELSE 4 - row[c]]] :
        row \in [AssetIxs -> Values]}

\* The masks tried: any first row, and a second row that is its negation.
MaskArrays ==
    {[r \in DateIxs |-> [c \in AssetIxs |-> IF r = 0 THEN row[c] ELSE ~row[c]]] :
        row \in [AssetIxs -> BOOLEAN]}

\* The percentile bounds a PercentileFilter can have.
PercentileBounds ==
    {b \in {0, 25, 50, 100} \X {0, 25, 50, 100} :
        PercentileValidate(b[1], b[2], bool_dtype) = "none"}

ComputePercentileFilter ==
    /\ args.op = "PercentileFilter"
    /\ \E r \in {PercentileCompute(args.array, args.mask, args.min_percentile,
                                     args.max_percentile)} :
           /\ args' = [args EXCEPT !.array = r.array]
           /\ out' = [done |-> TRUE, error |-> "none", value |-> r.value]
    /\ UNCHANGED <<adjustments_reader, blocks, lastCall, terms, lastTerm, blotterVars>>

\* Nothing but the call to make.
IdleRest == IdleLoader /\ terms = BaseTerms /\ lastTerm = NoTerm /\ InitBlotter

InitPercentile ==
    /\ IdleRest
    /\ out = NoOut
    /\ args \in {[op |-> "PercentileFilter", array |-> array, mask |-> mask,
                   min_percentile |-> b[1], max_percentile |-> b[2]] :
                      array \in Arrays, mask \in MaskArrays, b \in PercentileBounds}

NextPercentile == ComputePercentileFilter

\* PercentileFilter._compute on every array, mask and pair of bounds.
SpecPercentile == InitPercentile /\ [][NextPercentile]_vars

\* a & b, a | b on booleans.
ApplyOp(op, a, b) == IF op = "&" THEN a /\ b ELSE a \/ b

\* The value of an expression at one position, given the values of its
\* inputs there (0-based): "~x_i", "x_i op x_j" and
\* "(x_i op x_j) op (x_k)".
Evaluate(expr, v) ==
    IF Len(expr) = 2 THEN ~v[expr[2].ix]
    ELSE IF Len(expr) = 3 THEN ApplyOp(expr[2].text, v[expr[1].ix], v[expr[3].ix])
    ELSE ApplyOp(expr[6].text,
                 ApplyOp(expr[3].text, v[expr[2].ix], v[expr[4].ix]),
                 v[expr[8].ix])

\* NumericalExpression._compute(arrays, dates, assets, mask): the expression
\* evaluated element by element over the input arrays.
NumericalExpressionCompute(expr, arrays, mask) ==
    [r \in DateIxs |->
        [c \in AssetIxs |-> Evaluate(expr, [i \in DOMAIN arrays |-> arrays[i][r][c]])]]

\* NumExprFilter._compute without `& mask`.
NumExprFilterComputeUnmasked(expr, arrays, mask) ==
    NumericalExpressionCompute(expr, arrays, mask)

\* NumExprFilter._compute: super()._compute(arrays, dates, assets, mask) & mask
NumExprFilterCompute(expr, arrays, mask) ==
    [r \in DateIxs |->
        [c \in AssetIxs |-> NumericalExpressionCompute(expr, arrays, mask)[r][c] /\ mask[r][c]]]

\* The expressions computed: those the operators build over two inputs.
Exprs ==
    { <<Sym("~"), Var(0)>>,
      <<Var(0), Sym("&"), Var(1)>>,
      <<Var(0), Sym("|"), Var(1)>>,
      <<Sym("("), Var(0), Sym("&"), Var(1), Sym(")"), Sym("|"), Sym("("), Var(0), Sym(")")>> }

\* The boolean arrays tried (input arrays and masks alike).
InputArrays == [0..1 -> MaskArrays]

ComputeNumExprFilter ==
    /\ args.op = "NumExprFilter"
    /\ out' = [done |-> TRUE, error |-> "none",
               value |-> NumExprFilterCompute(args.expr, args.arrays, args.mask)]
    /\ UNCHANGED <<adjustments_reader, blocks, lastCall, terms, lastTerm, args, blotterVars>>

InitNumExpr ==
    /\ IdleRest
    /\ out = NoOut
    /\ args \in {[op |-> "NumExprFilter", expr |-> expr, arrays |-> arrays, mask |-> mask] :
                      expr \in Exprs, arrays \in InputArrays, mask \in MaskArrays}

NextNumExpr == ComputeNumExprFilter

\* NumExprFilter._compute on every expression, pair of input arrays and mask.
SpecNumExpr == InitNumExpr /\ [][NextNumExpr]_vars

\* ------------------------------------------------- loaders: event frames
\* NaTns, the null date: below every date, and the value pandas holds for
\* null.
NaTns == 0

\* dates / date_index: the index of the frame, and its positions (0-based).
date_index == [i \in 0..(LastDate - 1) |-> i + 1]

\* The knowledge dates and event dates of the events tried: inside the
\* index and after its last date.
KnowledgeDates == {1, 2, 3, LastDate + 1}

EventDays == {1, 4, 5, LastDate + 1}

\* The events of a sid, in the order of the DataFrame: knowledge date (the
\* index), event date and the value of the returned field, which tells the
\* events apart.
EventFrames(n) ==
    UNION {{[i \in 1..m |-> [kd |-> f[i][1], ed |-> f[i][2], value |-> 10 + i]] :
              f \in [1..m -> KnowledgeDates \X EventDays]} : m \in 0..n}

\* The sids of events_by_sid; the second has the events (1, 5) and (3, 4).
FrameSids == {1, 2}

EventsBySid(events) ==
    [sid \in FrameSids |->
        IF sid = 1 THEN events
        ELSE <<[kd |-> 1, ed |-> 5, value |-> 21], [kd |-> 3, ed |-> 4, value |-> 22]>>]

\* event_dates.index.is_monotonic_increasing
IsMonotonicIncreasing(events) ==
    \A i, j \in 1..Len(events) : i < j => events[i].kd <= events[j].kd

\* event_dates.sort_index(): the orders a sort by knowledge date can give.
SortIndex(events) ==
    {sorted \in {[i \in 1..Len(events) |-> events[p[i]]] : p \in Permutations(1..Len(events))} :
        IsMonotonicIncreasing(sorted)}

\* value_mask with the cells still null only.
ValueMaskNullOnly(event_date, cell) == cell = NaTns

\* value_mask = (event_date <= data) | (data == NaTns)
ValueMask(event_date, cell) == event_date <= cell \/ cell = NaTns

\* date_mask = (knowledge_date <= raw_dates) & (raw_dates <= event_date)
DateMask(knowledge_date, event_date, date) ==
    knowledge_date <= date /\ date <= event_date

RECURSIVE NextDates(_, _, _)
\* The loop over (knowledge_date, event_date):
\* data[date_mask & value_mask] = event_date
NextDates(data, event_dates, i) ==
    IF i > Len(event_dates) THEN data
    ELSE NextDates([r \in DOMAIN data |->
                       IF /\ DateMask(event_dates[i].kd, event_dates[i].ed, date_index[r])
                          /\ ValueMask(event_dates[i].ed, data[r])
                       THEN event_dates[i].ed ELSE data[r]],
                   event_dates, i + 1)

\* np.full_like(dates, NaTns)
FullNaT == [r \in DOMAIN date_index |-> NaTns]

\* next_date_frame(dates, events_by_sid, event_date_field_name), the sort
\* of each sid's events having given `sorted`.
NextDateFrameOf(sorted) == [sid \in DOMAIN sorted |-> NextDates(FullNaT, sorted[sid], 1)]

\* date_index.searchsorted(date): the number of index dates below it.
SearchSorted(index, date) == Cardinality({r \in DOMAIN index : index[r] < date})

\* df[df[event_date_field] <= d_n]
KnownEvents(events, d_n) == SelectSeq(events, LAMBDA ev : ev.ed <= d_n)

\* index_dates = np.maximum(kd_vals, event_date_vals), for one event
IndexDate(ev) == Max(ev.kd, ev.ed)

RECURSIVE AssignColumn(_, _, _)
\* out[date_index.searchsorted(index_dates), col_idx] = df[field]: the
\* values written at their rows, a later event over an earlier one.
AssignColumn(column, events, i) ==
    IF i > Len(events) THEN column
    ELSE AssignColumn([column EXCEPT ![SearchSorted(date_index, IndexDate(events[i]))] =
                           events[i].value],
                      events, i + 1)

\* A row past the end of the array.
IndexOutOfBounds(events) ==
    \E i \in 1..Len(events) :
        SearchSorted(date_index, IndexDate(events[i])) \notin DOMAIN date_index

\* pandas' null test: NaN, NaT.
IsNull(value) == value = NaTns

\* frame.ffill(): a null cell takes the value of the last cell above it that
\* is not null, if there is one.
FFill(column) ==
    [r \in DOMAIN column |->
        IF ~IsNull(column[r]) \/ \A q \in 0..r : IsNull(column[q]) THEN column[r]
        ELSE column[CHOOSE q \in 0..r :
                        ~IsNull(column[q]) /\ \A t \in (q + 1)..r : IsNull(column[t])]]

\* previous_event_frame(events_by_sid, date_index, missing_value, ...)
PreviousEventFrameOf(events_by_sid, missing_value) ==
    IF \E sid \in DOMAIN events_by_sid :
          IndexOutOfBounds(KnownEvents(events_by_sid[sid], date_index[LastDate - 1]))
    THEN [done |-> TRUE, error |-> "IndexError", value |-> <<>>]
    ELSE [done |-> TRUE, error |-> "none",
          value |-> [sid \in DOMAIN events_by_sid |->
                        FFill(AssignColumn([r \in DOMAIN date_index |-> missing_value],
                                           KnownEvents(events_by_sid[sid],
                                                       date_index[LastDate - 1]),
                                           1))]]

\* The missing values tried: null, and a value that is not null.
MissingValues == {NaTns, 9}

NextDateFrame ==
    /\ args.op = "next_date_frame"
    /\ \E s1 \in (IF IsMonotonicIncreasing(args.events_by_sid[1])
                    THEN {args.events_by_sid[1]} ELSE SortIndex(args.events_by_sid[1])) :
           out' = [done |-> TRUE, error |-> "none",
                   value |-> NextDateFrameOf([args.events_by_sid EXCEPT ![1] = s1])]
    /\ UNCHANGED <<adjustments_reader, blocks, lastCall, terms, lastTerm, args, blotterVars>>

PreviousEventFrame ==
    /\ args.op = "previous_event_frame"
    /\ out' = PreviousEventFrameOf(args.events_by_sid, args.missing_value)
    /\ UNCHANGED <<adjustments_reader, blocks, lastCall, terms, lastTerm, args, blotterVars>>

InitFrames ==
    /\ IdleRest
    /\ out = NoOut
    /\ args \in {[op |-> op, events_by_sid |-> EventsBySid(events),
                   missing_value |-> missing_value] :
                      op \in {"next_date_frame", "previous_event_frame"},
                      events \in EventFrames(MaxFrameEvents),
                      missing_value \in MissingValues}

NextFrames == NextDateFrame \/ PreviousEventFrame

\* next_date_frame and previous_event_frame on every list of events.
SpecFrames == InitFrames /\ [][NextFrames]_vars

\* ------------------------------------------------------------- blotter
\* The blotter: its three collections and the Order objects they refer to.
Blotter ==
    [objects |-> objects, open_orders |-> open_orders, orders |-> orders,
     new_orders |-> new_orders]

\* order_id=None
None == 0

\* Order(dt, sid, amount, cancel_policy, stop, limit, id): a new open
\* order, nothing filled; its id is the one given or, for None, a new one.
Order(ref, sid, amount, cancel_policy, id) ==
    [id |-> IF id = None THEN ref ELSE id, sid |-> sid, amount |-> amount, filled |-> 0,
     status |-> "OPEN", cancel_policy |-> cancel_policy, splits |-> <<>>]

\* Order.status: FILLED once nothing is left to fill, OPEN for a held order
\* that got a fill, the status set otherwise.
OrderStatus(order) ==
    IF order.amount - order.filled = 0 THEN "FILLED"
    ELSE IF order.status = "HELD" /\ order.filled # 0 THEN "OPEN"
    ELSE order.status

\* Order.open
OrderOpen(order) == OrderStatus(order) \in {"OPEN", "HELD"}

\* Order.handle_split(ratio), as the record of the ratio it was given.
HandleSplit(order, ratio) == [order EXCEPT !.splits = Append(@, ratio)]

\* Order.should_cancel(dt, event): what the order's cancel policy says.
ShouldCancel(order, event) == order.cancel_policy = "EODCancel" /\ event = "DAY_END"

\* order in order_list
In(list, ref) == \E i \in 1..Len(list) : list[i] = ref

\* order_list.remove(order): without its first occurrence.
Remove(list, ref) ==
    LET i == CHOOSE i \in 1..Len(list) : list[i] = ref /\ \A j \in 1..(i - 1) : list[j] # ref
    IN SubSeq(list, 1, i - 1) \o SubSeq(list, i + 1, Len(list))

\* order_list.remove(order) under `if order in order_list`
RemoveIfIn(list, ref) == IF In(list, ref) THEN Remove(list, ref) ELSE list

\* self.open_orders[sid] on the defaultdict: the key is created, with an
\* empty list, when absent.
WithKey(b, sid) ==
    IF sid \in DOMAIN b.open_orders THEN b
    ELSE [b EXCEPT !.open_orders = (sid :> <<>>) @@ b.open_orders]

\* elif amount > self.max_shares
OverLimit(amount) == amount > max_shares

\* Blotter.order(sid, amount, style, cancel_policy, order_id)
BlotterOrder(b, sid, amount, cancel_policy, order_id) ==
    IF amount = 0 THEN [b |-> b, error |-> "none", result |-> None]
    ELSE IF OverLimit(amount) THEN [b |-> b, error |-> "OverflowError", result |-> None]
    ELSE LET ref == Len(b.objects) + 1
             order == Order(ref, sid, amount, cancel_policy, order_id)
         IN [b |-> [objects |-> Append(b.objects, order),
                    open_orders |-> [WithKey(b, sid).open_orders EXCEPT ![sid] = Append(@, ref)],
                    orders |-> (order.id :> ref) @@ b.orders,
                    new_orders |-> Append(b.new_orders, ref)],
             error |-> "none", result |-> order.id]

\* The relay of a changed order: out of new_orders if in it, its status set,
\* and appended to new_orders.
Relay(b, ref, status) ==
    [b EXCEPT !.new_orders = Append(RemoveIfIn(@, ref), ref),
              !.objects[ref].status = status]

\* The list of its sid left as it is.
LeftInOpenOrders(b, ref) == b

\* Taken out of the list of its sid, if in it.
OutOfOpenOrders(b, ref) ==
    [WithKey(b, b.objects[ref].sid) EXCEPT
        !.open_orders[b.objects[ref].sid] = RemoveIfIn(@, ref)]

\* Blotter.cancel(order_id)
BlotterCancel(b, order_id) ==
    IF order_id \notin DOMAIN b.orders THEN b
    ELSE IF ~OrderOpen(b.objects[b.orders[order_id]]) THEN b
    ELSE Relay(OutOfOpenOrders(b, b.orders[order_id]), b.orders[order_id], "CANCELLED")

\* Blotter.reject(order_id, reason)
BlotterReject(b, order_id) ==
    IF order_id \notin DOMAIN b.orders THEN b
    ELSE Relay(OutOfOpenOrders(b, b.orders[order_id]), b.orders[order_id], "REJECTED")

\* Blotter.hold(order_id, reason)
BlotterHold(b, order_id) ==
    IF order_id \notin DOMAIN b.orders THEN b
    ELSE IF ~OrderOpen(b.objects[b.orders[order_id]]) THEN b
    ELSE Relay(b, b.orders[order_id], "HELD")

RECURSIVE CancelLoop(_, _, _, _)
\* for order in orders_by_sid: if order.should_cancel(dt, event):
\* self.cancel(order.id).  The iterator is at position i of the list as it
\* is when the position is reached.
CancelLoop(b, sid, i, event) ==
    IF i > Len(b.open_orders[sid]) THEN b
    ELSE CancelLoop(IF ShouldCancel(b.objects[b.open_orders[sid][i]], event)
                    THEN BlotterCancel(b, b.objects[b.open_orders[sid][i]].id)
                    ELSE b,
                    sid, i + 1, event)

RECURSIVE CancelAll(_, _, _)
\* Blotter.execute_cancel_policy(dt, event): the loop over the lists of
\* open_orders, in the order of the keys.
CancelAll(b, sids, event) ==
    IF sids = {} THEN b
    ELSE LET sid == CHOOSE sid \in sids : \A other \in sids : sid <= other
         IN CancelAll(CancelLoop(b, sid, 1, event), sids \ {sid}, event)

BlotterExecuteCancelPolicy(b, event) == CancelAll(b, DOMAIN b.open_orders, event)

RECURSIVE HandleSplits(_, _, _)
\* for order in orders_to_modify: order.handle_split(split[1])
HandleSplits(b, refs, ratio) ==
    IF refs = <<>> THEN b
    ELSE HandleSplits([b EXCEPT !.objects[Head(refs)] = HandleSplit(@, ratio)],
                      Tail(refs), ratio)

RECURSIVE ProcessSplitsFrom(_, _, _)
\* The loop of process_splits from entry i on: it returns at the first sid
\* that is no key of open_orders.
ProcessSplitsFrom(b, splits, i) ==
    IF i > Len(splits) THEN b
    ELSE IF splits[i][1] \notin DOMAIN b.open_orders THEN b
    ELSE ProcessSplitsFrom(HandleSplits(b, b.open_orders[splits[i][1]], splits[i][2]),
                           splits, i + 1)

\* Blotter.process_splits(splits)
BlotterProcessSplits(b, splits) == ProcessSplitsFrom(b, splits, 1)

RECURSIVE Fill(_, _, _)
\* order.filled += txn.amount, for each (order, txn) the slippage model
\* yields.
Fill(b, txns, i) ==
    IF i > Len(txns) THEN b
    ELSE Fill([b EXCEPT !.objects[txns[i].order].filled = @ + txns[i].amount], txns, i + 1)

RECURSIVE RemoveClosed(_, _, _)
\* for order in closed_orders: self.open_orders[order.sid].remove(order),
\* closed_orders being the orders of the transactions that are no longer
\* open.
RemoveClosed(b, txns, i) ==
    IF i > Len(txns) THEN b
    ELSE RemoveClosed(IF OrderOpen(b.objects[txns[i].order]) THEN b
                      ELSE [b EXCEPT !.open_orders[b.objects[txns[i].order].sid] =
                                         Remove(@, txns[i].order)],
                      txns, i + 1)

\* The keys left as they are, the emptied lists among them.
KeepEmptyKeys(b) == b

\* del self.open_orders[sid] for every sid with zero open orders
DeleteEmptyKeys(b) ==
    [b EXCEPT !.open_orders =
        [sid \in {sid \in DOMAIN b.open_orders : Len(b.open_orders[sid]) # 0} |->
            b.open_orders[sid]]]

\* Blotter.get_transactions(bar_data), the slippage model having yielded
\* txns.
BlotterGetTransactions(b, txns) == DeleteEmptyKeys(RemoveClosed(Fill(b, txns, 1), txns, 1))

\* The orders of open_orders, in the order of the keys and of each list.
RECURSIVE OpenRefs(_, _)
OpenRefs(b, sids) ==
    IF sids = {} THEN <<>>
    ELSE LET sid == CHOOSE sid \in sids : \A other \in sids : sid <= other
         IN b.open_orders[sid] \o OpenRefs(b, sids \ {sid})

\* What is left to fill of an order.
OpenAmount(order) == order.amount - order.filled

\* One share in the direction of the order.
Sign(amount) == IF amount < 0 THEN 0 - 1 ELSE 1

\* self.slippage_func(bar_data, asset, asset_orders): for each order with
\* something left to fill, no transaction, one of a single share or one of
\* all that is left.
SlippageTxns(b) ==
    LET refs == OpenRefs(b, DOMAIN b.open_orders)
        fills == {f \in [1..Len(refs) -> {"none", "part", "all"}] :
                     \A i \in 1..Len(refs) :
                        OpenAmount(b.objects[refs[i]]) = 0 => f[i] = "none"}
        chosen(f) == SelectSeq([i \in 1..Len(refs) |->
                                   [order |-> refs[i],
                                    amount |-> IF f[i] = "none" THEN 0
                                               ELSE IF f[i] = "part"
                                               THEN Sign(b.objects[refs[i]].amount)
                                               ELSE OpenAmount(b.objects[refs[i]])]],
                               LAMBDA txn : txn.amount # 0)
    IN {chosen(f) : f \in fills}

\* The sids, the cancel policies and the order ids given to order: None,
\* or an id the caller chose.
BlotterSids == {1, 2}

CancelPolicies == {"NeverCancel", "EODCancel"}

OrderIds == {None, 1}

\* The ids given to cancel, reject and hold: ids of orders, and an unknown
\* one.
KnownOrUnknownIds == 1..(MaxOrders + 1)

\* The lists of splits: one (sid, ratio) entry, or one or two.
SingleSplits == {<<e>> : e \in BlotterSids \X {2}}

SplitLists ==
    SingleSplits \cup {<<e1, e2>> : e1 \in BlotterSids \X {2}, e2 \in BlotterSids \X {2}}

\* A call on the blotter: the collections as it leaves them.
Call(b) ==
    /\ objects' = b.objects
    /\ open_orders' = b.open_orders
    /\ orders' = b.orders
    /\ new_orders' = b.new_orders
    /\ UNCHANGED <<adjustments_reader, blocks, lastCall, terms, lastTerm, computeVars>>

\* order(sid, amount, style, cancel_policy, order_id), its arguments and
\* outcome recorded.
OrderCall(amounts, policies, ids) ==
    \E sid \in BlotterSids, amount \in amounts, cancel_policy \in policies, order_id \in ids :
        \E r \in {BlotterOrder(Blotter, sid, amount, cancel_policy, order_id)} :
           /\ Len(r.b.objects) <= MaxOrders
           /\ Call(r.b)
           /\ lastOp' = [NoOp EXCEPT !.op = "order", !.sid = sid, !.amount = amount,
                                      !.order_id = order_id, !.error = r.error,
                                      !.result = r.result]

\* order(sid, amount, style, order_id=order_id)
PlaceOrder(amounts, ids) ==
    \E sid \in BlotterSids, amount \in amounts, order_id \in ids :
        \E r \in {BlotterOrder(Blotter, sid, amount, "NeverCancel", order_id)} :
           /\ Len(r.b.objects) <= MaxOrders
           /\ Call(r.b)
           /\ UNCHANGED lastOp

CancelCall ==
    \E order_id \in KnownOrUnknownIds :
        Call(BlotterCancel(Blotter, order_id)) /\ UNCHANGED lastOp

RejectCall ==
    \E order_id \in KnownOrUnknownIds :
        Call(BlotterReject(Blotter, order_id)) /\ UNCHANGED lastOp

HoldCall ==
    \E order_id \in KnownOrUnknownIds :
        Call(BlotterHold(Blotter, order_id)) /\ UNCHANGED lastOp

\* process_splits(splits), no order being taken through more than `most`
\* splits.
ProcessSplitsCall(lists, most) ==
    \E splits \in lists :
        \E b \in {BlotterProcessSplits(Blotter, splits)} :
           /\ \A ref \in 1..Len(b.objects) : Len(b.objects[ref].splits) <= most
           /\ Call(b)
           /\ UNCHANGED lastOp

GetTransactionsCall ==
    \E txns \in SlippageTxns(Blotter) :
        Call(BlotterGetTransactions(Blotter, txns)) /\ UNCHANGED lastOp

\* execute_cancel_policy(dt, event), the event recorded.
ExecuteCancelPolicyCall ==
    \E event \in {"BAR", "DAY_END"} :
        /\ Call(BlotterExecuteCancelPolicy(Blotter, event))
        /\ lastOp' = [NoOp EXCEPT !.op = "execute_cancel_policy", !.event = event]

\* Nothing but the blotter.
InitBlotterOnly ==
    /\ IdleLoader /\ terms = BaseTerms /\ lastTerm = NoTerm /\ IdleCompute
    /\ InitBlotter

NextBlotter ==
    \/ PlaceOrder({0, 1}, OrderIds)
    \/ CancelCall
    \/ RejectCall
    \/ HoldCall
    \/ ProcessSplitsCall(SingleSplits, 1)
    \/ GetTransactionsCall

\* The blotter under order, cancel, reject, hold, process_splits and
\* get_transactions.
SpecBlotter == InitBlotterOnly /\ [][NextBlotter]_vars

NextSplits ==
    \/ PlaceOrder({1}, {None})
    \/ CancelCall
    \/ ProcessSplitsCall(SplitLists, 2)

\* Orders placed and cancelled, and lists of one or two splits processed.
SpecSplits == InitBlotterOnly /\ [][NextSplits]_vars

NextFills ==
    \/ PlaceOrder({2}, {None})
    \/ HoldCall
    \/ RejectCall
    \/ GetTransactionsCall

\* Orders of two shares, held, rejected and filled a share or all at a
\* time.
SpecFills == InitBlotterOnly /\ [][NextFills]_vars

\* The amounts around the limit, either way: a share, the limit itself and
\* one share more, bought or sold, and no share at all.
LimitAmounts ==
    {0 - (max_shares + 1), 0 - max_shares, 0 - 1, 0, 1, max_shares, max_shares + 1}

NextOrder == OrderCall(LimitAmounts, {"NeverCancel"}, {None})

\* Orders of amounts around max_shares.
SpecOrder == InitBlotterOnly /\ [][NextOrder]_vars

NextCancelPolicy ==
    \/ OrderCall({0 - 1, 1}, CancelPolicies, {None})
    \/ ExecuteCancelPolicyCall

\* Orders of a share bought or sold, placed under either cancel policy, and the policies executed at a
\* bar and at the end of the day.
SpecCancelPolicy == InitBlotterOnly /\ [][NextCancelPolicy]_vars

\* --------------------------------------------------------------- properties
\* The calendar position of a session date.
PositionOf(dt) == CHOOSE p \in 0..(CalLen - 1) : SessionDate(p) = dt

\* The row of a block at which the session dated dt sits.
EventRow(b, dt) == PositionOf(dt) - b.cal_start

\* The last row of a block's array.
LastRow(b) == b.cal_end - b.cal_start

\* dt is one of the block's days (cal[cal_start:cal_end], the days handed to
\* _get_adjustments_in_range).
InDays(b, dt) == 0 <= EventRow(b, dt) /\ EventRow(b, dt) <= LastRow(b) - 1

\* The window of the block has been advanced to the end of its array.
AtEnd(b) == b.window.anchor = LastRow(b)

\* The product of ratios a row of the buffer carries: its value over the raw
\* value of its session.
Multiplier(key, b, row) == b.window.data[row] \div RawValue(key[2], b.cal_start + row)

\* The row carries the ratio r (every event has its own prime).
Carries(key, b, row, r) == Multiplier(key, b, row) % r = 0

\* Some adjustment of the block's schedule has the value r.
Scheduled(b, r) ==
    \E k \in DOMAIN b.window.adjustments :
        \E n \in 1..Len(b.window.adjustments[k]) : b.window.adjustments[k][n].value = r

\* The j-th split is the last one the reader lists for its date.
LastSplitOfDate(j) ==
    \A j2 \in (j + 1)..Len(adjustments_reader.splits) :
        adjustments_reader.splits[j2].dt # adjustments_reader.splits[j].dt

AppliedAt(w, k) ==
    LET sel == SelectSeq(w.applied, LAMBDA e : e.anchor = k)
    IN [n \in 1..Len(sel) |-> sel[n].adj]

RECURSIVE ListFactor(_, _, _)
\* The product of the values of the adjustments of a list, from the n-th on,
\* whose rows include `row`.
ListFactor(adjlist, n, row) ==
    IF n > Len(adjlist) THEN 1
    ELSE (IF adjlist[n].first_row <= row /\ row <= adjlist[n].last_row
          THEN adjlist[n].value ELSE 1) * ListFactor(adjlist, n + 1, row)

RECURSIVE DueFactor(_, _, _)
\* The product, over the scheduled rows in `keys`, of what their adjustments
\* multiply `row` by.
DueFactor(w, keys, row) ==
    IF keys = {} THEN 1
    ELSE LET k == CHOOSE x \in keys : TRUE
         IN ListFactor(w.adjustments[k], 1, row) * DueFactor(w, keys \ {k}, row)

NoRescaleOfReturnedRows ==
    \A key \in DOMAIN blocks :
        (lastCall'.key = key /\ ~lastCall'.fetched /\ lastCall'.error = "none") =>
            \A n \in (Len(blocks[key].window.applied) + 1)..Len(blocks'[key].window.applied) :
                blocks'[key].window.applied[n].adj.first_row > blocks[key].window.anchor

C3_RepeatedHistory ==
    (/\ lastCall.op = "history" /\ lastCall.error = "none"
     /\ lastCall'.key = lastCall.key
     /\ lastCall'.start_ix = lastCall.start_ix
     /\ lastCall'.end_ix = lastCall.end_ix) =>
        /\ lastCall'.error = "none"
        /\ lastCall'.result = lastCall.result
        /\ ~lastCall'.fetched
        /\ blocks' = blocks

C3_HistoryIdempotent == [][C3_RepeatedHistory]_vars

\* A history call has just repeated the call before it, on a Block that has
\* rows and adjustments ahead of its anchor.
C3_Witness ==
    /\ lastCall.op = "history" /\ lastCall.repeated /\ lastCall.error = "none"
    /\ lastCall.result # <<>>
    /\ ~AtEnd(blocks[lastCall.key])
    /\ \E k \in DOMAIN blocks[lastCall.key].window.adjustments :
          k = blocks[lastCall.key].window.anchor + 1

\* What history returns for the request from a Block built for it alone: the
\* rebuild of _ensure_block for the request, then Block.get.
FreshResult(key, start_ix, end_ix) ==
    BlockGet(BuildBlock(key[1], key[3], start_ix, Min(end_ix + PrefetchLen, CalLen - 1), key[2]),
             end_ix).block.current

\* The last n rows of a view.
Trailing(view, n) == Slice(view, Size(view) - n, Size(view))

\* C4 as stated, on the rows both results hold: a result served from the
\* cached Block, its window standing at the requested row, ends with the
\* rows a Block freshly built for the same request returns.
C4_CachedEqualsFresh ==
    (/\ lastCall.op = "history" /\ lastCall.error = "none" /\ ~lastCall.fetched
     /\ blocks[lastCall.key].window.anchor = lastCall.end_ix - blocks[lastCall.key].cal_start
     /\ lastCall.start_ix < Min(lastCall.end_ix + PrefetchLen, CalLen - 1)) =>
        LET fresh == FreshResult(lastCall.key, lastCall.start_ix, lastCall.end_ix)
        IN /\ Size(fresh) <= Size(lastCall.result)
           /\ Trailing(lastCall.result, Size(fresh)) = fresh

\* The cache holds a Block for the key of the call about to be recorded, and
\* the Block's closed range [cal_start, cal_end] holds the call's positions.
CoveredBefore ==
    /\ lastCall'.key \in DOMAIN blocks
    /\ blocks[lastCall'.key].cal_start <= lastCall'.start_ix
    /\ lastCall'.end_ix <= blocks[lastCall'.key].cal_end

\* C5: a call whose key has an entry with cal_start <= start_ix and end_ix <=
\* cal_end is served by that entry, with its range, its schedule and what it
\* applied so far kept, and without a call of load_raw_arrays; every other
\* call calls load_raw_arrays and, when it returns, the entry of its key is a
\* Block built for it: cal_start its start, cal_end its prefetch end, the
\* window advanced from row 0 to the requested row and no further.  The one
\* rebuild that does not return is that of a request for the last session
\* alone with a reader: days is empty, days[0] raises and the cache is kept.
C5_Step ==
    LET key == lastCall'.key
    IN /\ CoveredBefore =>
            /\ ~lastCall'.fetched
            /\ blocks'[key].cal_start = blocks[key].cal_start
            /\ blocks'[key].cal_end = blocks[key].cal_end
            /\ blocks'[key].window.adjustments = blocks[key].window.adjustments
            /\ SubSeq(blocks'[key].window.applied, 1, Len(blocks[key].window.applied))
                  = blocks[key].window.applied
       /\ ~CoveredBefore =>
            /\ lastCall'.fetched
            /\ lastCall'.error = "none" =>
                  /\ key \in DOMAIN blocks'
                  /\ blocks'[key].cal_start = lastCall'.start_ix
                  /\ blocks'[key].cal_end = Min(lastCall'.end_ix + PrefetchLen, CalLen - 1)
                  /\ blocks'[key].window.anchor = lastCall'.end_ix - lastCall'.start_ix
            /\ lastCall'.error # "none" =>
                  /\ lastCall'.error = "IndexError"
                  /\ adjustments_reader.present
                  /\ lastCall'.start_ix = CalLen - 1
                  /\ blocks' = blocks

AsMultiply(ev, k) ==
    [first_row |-> 0, last_row |-> k, first_col |-> 0, last_col |-> 0, value |-> ev.ratio]

\* The event lies in the range of the block's days: after days[0], on or
\* before days[-1].
InDaysRange(b, dt) == InDays(b, dt) /\ EventRow(b, dt) >= 1

\* The row an event of the kind is keyed at: max(e - 1, 0) for a merger or a
\* split with event row e, e for a dividend.
KeyOf(kind, b, dt) ==
    IF kind = "dividends" THEN EventRow(b, dt) ELSE Max(EventRow(b, dt) - 1, 0)

\* The multiplies of the events of one kind that resolve to row k, in reader
\* order.
DueOfKind(kind, events, b, k) ==
    LET sel == SelectSeq(events, LAMBDA ev : InDaysRange(b, ev.dt) /\ KeyOf(kind, b, ev.dt) = k)
    IN [n \in 1..Len(sel) |-> AsMultiply(sel[n], k)]

\* All the multiplies that resolve to row k, in insertion order.
DueAt(b, k) ==
    DueOfKind("mergers", adjustments_reader.mergers, b, k)
    \o DueOfKind("dividends", adjustments_reader.dividends, b, k)
    \o DueOfKind("splits", adjustments_reader.splits, b, k)

\* The reader's events, each with its kind.
AllEvents ==
    {<<"mergers", adjustments_reader.mergers[j]>> : j \in 1..Len(adjustments_reader.mergers)}
    \cup {<<"dividends", adjustments_reader.dividends[j]>> :
            j \in 1..Len(adjustments_reader.dividends)}
    \cup {<<"splits", adjustments_reader.splits[j]>> : j \in 1..Len(adjustments_reader.splits)}

\* C6 as stated: the adjustments handed to the window of a volume Block are
\* those of splits only, none derived from a merger or a dividend.
C6_VolumeOnlySplits ==
    \A key \in DOMAIN blocks :
        key[2] = "volume" =>
            \A k \in DOMAIN blocks[key].window.adjustments :
                \A n \in 1..Len(blocks[key].window.adjustments[k]) :
                    \E j \in 1..Len(adjustments_reader.splits) :
                        blocks[key].window.adjustments[k][n].value
                            = adjustments_reader.splits[j].ratio

\* C7 as stated: when two or more events resolve to the same row, the
\* mapping holds all their multiplies in one list at that row, in insertion
\* order (mergers, dividends, splits; reader order within a kind).
C7_SameRowAccumulates ==
    \A key \in DOMAIN blocks : \A k \in 0..LastRow(blocks[key]) :
        Len(DueAt(blocks[key], k)) >= 2 =>
            /\ k \in DOMAIN blocks[key].window.adjustments
            /\ blocks[key].window.adjustments[k] = DueAt(blocks[key], k)

\* C8 as stated: for a price field, an event is scheduled if and only if
\* its date is after the range start and on or before the range end, and
\* then as Multiply(0, key, 0, 0, ratio) at the row of its kind.
C8_ScheduledIffInRange ==
    \A key \in DOMAIN blocks : \A kev \in AllEvents :
        LET b == blocks[key]
            k == KeyOf(kev[1], b, kev[2].dt)
        IN key[2] \in PriceFields =>
              IF InDaysRange(b, kev[2].dt)
              THEN /\ k \in DOMAIN b.window.adjustments
                   /\ \E n \in 1..Len(b.window.adjustments[k]) :
                         b.window.adjustments[k][n] = AsMultiply(kev[2], k)
              ELSE ~Scheduled(b, kev[2].ratio)

\* C9 as stated, for the event on the last fetched session: an event dated
\* on prefetch_end (the Block's cal_end), after the start, is present in the
\* new window's adjustments.
C9_EventOnPrefetchEndScheduled ==
    \A key \in DOMAIN blocks : \A kev \in AllEvents :
        LET b == blocks[key]
        IN (kev[2].dt = SessionDate(b.cal_end) /\ b.cal_end > b.cal_start) =>
              Scheduled(b, kev[2].ratio)

\* C10, the fetch: a call that calls load_raw_arrays fetches from its start
\* through min(end + 40, len(calendar) - 1), and the Block it leaves has
\* these two positions as cal_start and cal_end.
C10_FetchRange ==
    lastCall.fetched =>
        /\ lastCall.fetch_first = lastCall.start_ix
        /\ lastCall.fetch_last = Min(lastCall.end_ix + PrefetchLen, CalLen - 1)
        /\ lastCall.error = "none" =>
              /\ blocks[lastCall.key].cal_start = lastCall.start_ix
              /\ blocks[lastCall.key].cal_end = lastCall.fetch_last

\* C10, the amortization: a call on a key whose Block holds its start and end
\* in [cal_start, cal_end] calls load_raw_arrays no more and keeps the range,
\* so the same holds of the call after it.
C10_NoRefetch ==
    CoveredBefore =>
        /\ ~lastCall'.fetched
        /\ blocks'[lastCall'.key].cal_start = blocks[lastCall'.key].cal_start
        /\ blocks'[lastCall'.key].cal_end = blocks[lastCall'.key].cal_end

C11_ResultEndsAtRequestedEnd ==
    (lastCall.op = "history" /\ lastCall.error = "none") =>
        LET b == blocks[lastCall.key]
            row == lastCall.end_ix - b.cal_start
        IN lastCall.result = Slice(b.window.data, Max(0, row - b.window.window_length + 1), row + 1)

\* C12: a call served by the cached Block leaves its anchor at the larger of
\* the anchor before and end_ix - cal_start: it never decreases, it stops at
\* the target, and the adjustments applied on the way are those of the rows
\* gone through, one row after the other; a call that does not touch a Block
\* leaves its anchor alone.
C12_Step ==
    \A key \in DOMAIN blocks :
        LET b == blocks[key]
            served == lastCall'.key = key /\ lastCall'.error = "none"
            rebuilt == lastCall'.key = key /\ lastCall'.fetched /\ lastCall'.error = "none"
        IN ~rebuilt =>
              /\ key \in DOMAIN blocks'
              /\ blocks'[key].window.anchor >= b.window.anchor
              /\ blocks'[key].window.anchor =
                    IF served THEN Max(b.window.anchor, lastCall'.end_ix - b.cal_start)
                    ELSE b.window.anchor
              /\ \A n \in (Len(b.window.applied) + 1)..Len(blocks'[key].window.applied) :
                    /\ blocks'[key].window.applied[n].anchor > b.window.anchor
                    /\ blocks'[key].window.applied[n].anchor <= blocks'[key].window.anchor
                    /\ n > Len(b.window.applied) + 1 =>
                          blocks'[key].window.applied[n - 1].anchor
                              <= blocks'[key].window.applied[n].anchor

C12_AnchorMonotonic == [][C12_Step]_vars

\* A Block advanced by two rows or more, then asked for an earlier end.
C12_Witness ==
    /\ lastCall.op = "history" /\ ~lastCall.fetched /\ lastCall.error = "none"
    /\ blocks[lastCall.key].window.anchor >= 2
    /\ lastCall.end_ix - blocks[lastCall.key].cal_start < blocks[lastCall.key].window.anchor

\* C13: no history call ends in OutOfBounds, and no window's anchor is past
\* the last row of its array.
C13_NoOutOfBounds ==
    /\ lastCall.error # "OutOfBounds"
    /\ \A key \in DOMAIN blocks :
          /\ blocks[key].window.anchor <= blocks[key].window.max_anchor
          /\ blocks[key].window.max_anchor = blocks[key].cal_end - blocks[key].cal_start

\* A request ending on cal_end served by a window on the last row of its
\* array.
C13_Witness ==
    /\ lastCall.op = "history" /\ lastCall.error = "none"
    /\ lastCall.end_ix = blocks[lastCall.key].cal_end
    /\ lastCall.end_ix > lastCall.start_ix
    /\ blocks[lastCall.key].window.anchor = blocks[lastCall.key].window.max_anchor
    /\ lastCall.result # <<>>

\* C14: in a loader without an adjustment reader no call raises, none calls
\* get_adjustments_for_sid, every window has an empty adjustment set, and
\* history returns the raw values of the trailing rows up to the anchor.
C14_AbsentReader ==
    ~adjustments_reader.present =>
        /\ lastCall.error = "none"
        /\ lastCall.adj_queries = 0
        /\ \A key \in DOMAIN blocks :
              /\ DOMAIN blocks[key].window.adjustments = {}
              /\ blocks[key].window.applied = <<>>
        /\ lastCall.op = "history" =>
              LET b == blocks[lastCall.key]
                  a == b.window.anchor
                  first == Max(0, a - b.window.window_length + 1)
              IN lastCall.result =
                    [i \in 0..(a - first) |-> RawValue(lastCall.key[2], b.cal_start + first + i)]

\* A rebuild for the last session alone in a loader without a reader.
C14_Witness ==
    /\ ~adjustments_reader.present
    /\ lastCall.op = "history" /\ lastCall.fetched
    /\ lastCall.start_ix = CalLen - 1
    /\ lastCall.result # <<>>

\* C15: a history call changes at most the cache entry of its key: every
\* other entry stays, with its Block and its window as they were, and no
\* entry appears but that of the key; a rebuild leaves under the key the
\* Block built from the fetched array, not the stale one.
C15_Step ==
    /\ \A key \in DOMAIN blocks :
          key # lastCall'.key => key \in DOMAIN blocks' /\ blocks'[key] = blocks[key]
    /\ DOMAIN blocks' \subseteq (DOMAIN blocks) \cup {lastCall'.key}
    /\ (lastCall'.fetched /\ lastCall'.error = "none") =>
          LET b == blocks'[lastCall'.key]
          IN /\ b.cal_start = lastCall'.start_ix
             /\ b.window.max_anchor = b.cal_end - b.cal_start
             /\ \A row \in (b.window.anchor + 1)..b.window.max_anchor :
                   b.window.data[row] = RawValue(lastCall'.key[2], b.cal_start + row)

C15_PerEntryInvalidation == [][C15_Step]_vars

\* Two entries, the one of the last call just rebuilt over a stale Block.
C15_Witness ==
    /\ Cardinality(DOMAIN blocks) = 2
    /\ lastCall.op = "history" /\ lastCall.fetched /\ lastCall.error = "none"
    /\ lastCall.start_ix > 0
    /\ \E key \in DOMAIN blocks : key # lastCall.key /\ blocks[key].window.anchor >= 1

\* The bounds of the last PercentileFilter call are well-formed.
ValidBounds ==
    /\ 0 <= lastTerm.min_percentile
    /\ lastTerm.min_percentile < lastTerm.max_percentile
    /\ lastTerm.max_percentile <= 100

\* C16, the outcome: a PercentileFilter call returns a PercentileFilter when
\* 0 <= min < max <= 100 and raises BadPercentileBounds otherwise, and no
\* PercentileFilter object has bounds outside that.
C16_Outcome ==
    /\ lastTerm.op = "PercentileFilter" =>
          IF ValidBounds
          THEN /\ lastTerm.error = "none"
               /\ lastTerm.result \in 1..Len(terms)
               /\ terms[lastTerm.result].type = "PercentileFilter"
          ELSE /\ lastTerm.error = "BadPercentileBounds"
               /\ lastTerm.result = 0 /\ ~lastTerm.created
    /\ \A oid \in 1..Len(terms) :
          terms[oid].type = "PercentileFilter" =>
              /\ 0 <= terms[oid].percentiles[1]
              /\ terms[oid].percentiles[1] < terms[oid].percentiles[2]
              /\ terms[oid].percentiles[2] <= 100

\* C16, at construction time: the call that raises leaves no object behind.
C16_RaiseBuildsNothing == lastTerm'.error # "none" => terms' = terms

C17_TermDeduplication ==
    /\ \A i, j \in 1..Len(terms) : terms[i] = terms[j] => i = j
    /\ (lastTerm.op = "Latest" /\ lastTerm.error = "none") =>
          /\ terms[lastTerm.result].type = "Latest"
          /\ terms[lastTerm.result].inputs = <<lastTerm.self>>
          /\ terms[lastTerm.result].mask = lastTerm.mask
    /\ (lastTerm.op = "PercentileFilter" /\ lastTerm.error = "none") =>
          /\ terms[lastTerm.result].type = "PercentileFilter"
          /\ terms[lastTerm.result].inputs = <<lastTerm.self>>
          /\ terms[lastTerm.result].mask = lastTerm.mask
          /\ terms[lastTerm.result].percentiles =
                <<lastTerm.min_percentile, lastTerm.max_percentile>>

\* A PercentileFilter built a second time, found in the cache, next to one
\* that differs from it in max_percentile only.
C17_Witness ==
    /\ lastTerm.op = "PercentileFilter" /\ lastTerm.error = "none" /\ ~lastTerm.created
    /\ \E oid \in 1..Len(terms) :
          /\ oid # lastTerm.result
          /\ terms[oid].type = "PercentileFilter"
          /\ terms[oid].inputs = terms[lastTerm.result].inputs
          /\ terms[oid].mask = terms[lastTerm.result].mask
          /\ terms[oid].percentiles[1] = terms[lastTerm.result].percentiles[1]
          /\ terms[oid].percentiles[2] # terms[lastTerm.result].percentiles[2]

\* The last call is a binary operator on a Filter that is not a
\* NumericalExpression.
PlainFilterOperator ==
    lastTerm.op = "binary" /\ ~IsNumericalExpression(lastTerm.self)

\* The operand of the last call is a Filter.
FilterOperand == lastTerm.other_kind = "term" /\ IsFilter(lastTerm.other)

\* The operand of the last call is a NumericalExpression.
ExpressionOperand == lastTerm.other_kind = "term" /\ IsNumericalExpression(lastTerm.other)

NoDuplicateInputs(t) == \A i, j \in 1..Len(t.inputs) : t.inputs[i] = t.inputs[j] => i = j

\* The result of the last call is the NumExprFilter of the expression over
\* the inputs.
BuiltNumExprFilter(expr, inputs) ==
    /\ lastTerm.error = "none"
    /\ lastTerm.result \in 1..Len(terms)
    /\ terms[lastTerm.result].type = "NumExprFilter"
    /\ terms[lastTerm.result].expr = expr
    /\ terms[lastTerm.result].inputs = inputs

C19_ConstantFolding ==
    (PlainFilterOperator /\ lastTerm.other_kind \in {"int", "bool"}) =>
        BuiltNumExprFilter(<<Var(0), Sym(lastTerm.symbol), Sym("("), Num(lastTerm.other),
                             Sym(")")>>,
                           <<lastTerm.self>>)

\* A PercentileFilter combined with True, giving a new term.
C19_Witness ==
    /\ PlainFilterOperator
    /\ lastTerm.other_kind = "bool" /\ lastTerm.other = 1
    /\ lastTerm.created

\* C20, the outcome: on a Filter that is not a NumericalExpression the
\* operator returns a Filter when the operand is a NumericalExpression, a
\* Filter, an int or a bool, and raises BadBinaryOperator for any other
\* operand.
C20_Outcome ==
    PlainFilterOperator =>
        IF FilterOperand \/ ExpressionOperand \/ lastTerm.other_kind \in {"int", "bool"}
        THEN /\ lastTerm.error = "none"
             /\ lastTerm.result \in 1..Len(terms)
             /\ IsFilter(lastTerm.result)
        ELSE /\ lastTerm.error = "BadBinaryOperator"
             /\ lastTerm.result = 0 /\ ~lastTerm.created

\* C20, no term: the operator call that raises creates no term.
C20_RaiseCreatesNoTerm ==
    (lastTerm'.op = "binary" /\ lastTerm'.error = "BadBinaryOperator") => terms' = terms

\* C20: BadBinaryOperator exactly for the operands of no accepted kind.
C20_BadBinaryOperator == [](C20_Outcome) /\ [][C20_RaiseCreatesNoTerm]_vars

\* A PercentileFilter combined with a Factor: refused.
C20_Witness ==
    /\ PlainFilterOperator
    /\ lastTerm.other_kind = "term" /\ terms[lastTerm.other].type = "Factor"
    /\ lastTerm.error = "BadBinaryOperator"

\* C21, the outcome: a NumExprFilter asked for with the boolean dtype is
\* built, one asked for with another dtype raises UnsupportedDataType, and
\* no Filter object has a dtype other than the boolean one.
C21_Outcome ==
    /\ lastTerm.op = "NumExprFilter" =>
          IF lastTerm.dtype = bool_dtype
          THEN /\ lastTerm.error = "none"
               /\ lastTerm.result \in 1..Len(terms)
               /\ terms[lastTerm.result].type = "NumExprFilter"
               /\ terms[lastTerm.result].dtype = bool_dtype
          ELSE /\ lastTerm.error = "UnsupportedDataType"
               /\ lastTerm.result = 0 /\ ~lastTerm.created
    /\ \A oid \in 1..Len(terms) : IsFilter(oid) => terms[oid].dtype = bool_dtype

\* C21, at construction: the call that raises UnsupportedDataType leaves no
\* object behind.
C21_RaiseBuildsNothing == lastTerm'.error = "UnsupportedDataType" => terms' = terms

\* C21: constructing a Filter with a dtype that is not the boolean dtype
\* raises UnsupportedDataType at construction, and no Filter with such a
\* dtype exists.
C21_FilterDtype == [](C21_Outcome) /\ [][C21_RaiseBuildsNothing]_vars

\* A NumExprFilter asked for with the float64 dtype, refused.
C21_Witness ==
    /\ lastTerm.op = "NumExprFilter" /\ lastTerm.dtype = float64_dtype
    /\ lastTerm.error = "UnsupportedDataType"

\* The unmasked values of a row of the array passed in, as float64.
Unmasked(r) ==
    [c \in {c \in AssetIxs : args.mask[r][c]} |-> Float64(args.array[r][c])]

\* C22, the result: in each row the thresholds are the two percentiles of
\* the row's unmasked values, and the output is true exactly at the unmasked
\* entries v with lower <= v <= upper.
C22_Band ==
    out.done =>
        \A r \in DateIxs, c \in AssetIxs :
            out.value[r][c] <=>
                /\ args.mask[r][c]
                /\ LessEqual(NanPercentile(Unmasked(r), args.min_percentile),
                             Float64(100 * args.array[r][c]))
                /\ LessEqual(Float64(100 * args.array[r][c]),
                             NanPercentile(Unmasked(r), args.max_percentile))

\* C22, the input: the call leaves the array passed in as it was.
C22_InputKept == args' = args

\* C22: PercentileFilter._compute gives, row by row, the unmasked entries
\* between the two percentiles of the row's unmasked values, bounds
\* included, never a masked entry, and does not modify its input.
C22_PercentileCompute == [](C22_Band) /\ [][C22_InputKept]_vars

\* A row with a masked entry, an unmasked entry in the band and an unmasked
\* entry below an interpolated lower threshold.
C22_Witness ==
    /\ out.done
    /\ args.min_percentile = 25
    /\ \E c1, c2, c3 \in AssetIxs :
          /\ ~args.mask[0][c1] /\ args.array[0][c1] = 3
          /\ args.mask[0][c2] /\ out.value[0][c2]
          /\ args.mask[0][c3] /\ ~out.value[0][c3]

\* C25: the output of NumExprFilter._compute is false wherever the mask is
\* false and is the value of the expression wherever the mask is true.
C25_MaskReapplied ==
    (out.done /\ args.op = "NumExprFilter") =>
        \A r \in DateIxs, c \in AssetIxs :
            IF args.mask[r][c]
            THEN out.value[r][c] =
                     Evaluate(args.expr, [i \in DOMAIN args.arrays |-> args.arrays[i][r][c]])
            ELSE out.value[r][c] = FALSE

\* A position the mask excludes where the expression is true, and one it
\* keeps where the expression is true.
C25_Witness ==
    /\ out.done /\ args.op = "NumExprFilter"
    /\ \E c1, c2 \in AssetIxs :
          /\ ~args.mask[0][c1]
          /\ Evaluate(args.expr, [i \in DOMAIN args.arrays |-> args.arrays[i][0][c1]])
          /\ args.mask[0][c2] /\ out.value[0][c2]

\* The event dates of a sid's events known at a date and not yet past.
UpcomingAt(sid, date) ==
    {args.events_by_sid[sid][i].ed : i \in {i \in 1..Len(args.events_by_sid[sid]) :
        /\ args.events_by_sid[sid][i].kd <= date
        /\ date <= args.events_by_sid[sid][i].ed}}

\* C23: each cell of next_date_frame holds the smallest event date among
\* the sid's events with knowledge_date <= date <= event_date, and NaT when
\* there is none.
C23_NextDateFrame ==
    (out.done /\ args.op = "next_date_frame") =>
        /\ out.error = "none"
        /\ \A sid \in FrameSids, r \in DOMAIN date_index :
              IF UpcomingAt(sid, date_index[r]) = {}
              THEN out.value[sid][r] = NaTns
              ELSE /\ out.value[sid][r] \in UpcomingAt(sid, date_index[r])
                   /\ \A e \in UpcomingAt(sid, date_index[r]) : out.value[sid][r] <= e

\* The events (3, 4) and (1, 5), given in that order: day 5 at day 2, day 4
\* at days 3 and 4, day 5 at day 5.
C23_Witness ==
    /\ out.done /\ args.op = "next_date_frame"
    /\ Len(args.events_by_sid[1]) = 2
    /\ args.events_by_sid[1][1].kd = 3 /\ args.events_by_sid[1][1].ed = 4
    /\ args.events_by_sid[1][2].kd = 1 /\ args.events_by_sid[1][2].ed = 5
    /\ out.value[1] = [r \in DOMAIN date_index |->
                          IF date_index[r] \in {3, 4} THEN 4
                          ELSE IF date_index[r] <= 5 THEN 5 ELSE NaTns]

\* The events of a sid whose as-of date, max(knowledge_date, event_date), is
\* on or before a date.
AsOfBy(sid, date) ==
    {i \in 1..Len(args.events_by_sid[sid]) : IndexDate(args.events_by_sid[sid][i]) <= date}

\* C24: previous_event_frame returns, and each cell holds the value of an
\* event of the sid with the latest as-of date on or before the row's date,
\* and missing_value when no event has an as-of date on or before it.
C24_PreviousEventFrame ==
    (out.done /\ args.op = "previous_event_frame") =>
        /\ out.error = "none"
        /\ \A sid \in FrameSids, r \in DOMAIN date_index :
              IF AsOfBy(sid, date_index[r]) = {}
              THEN out.value[sid][r] = args.missing_value
              ELSE \E i \in AsOfBy(sid, date_index[r]) :
                      /\ out.value[sid][r] = args.events_by_sid[sid][i].value
                      /\ \A j \in AsOfBy(sid, date_index[r]) :
                            IndexDate(args.events_by_sid[sid][j])
                                <= IndexDate(args.events_by_sid[sid][i])

\* The ratios of the entries of a list of splits that are for the sid of a
\* list of open_orders the order is in.
RatiosFor(ref, splits) ==
    LET mine == SelectSeq(splits, LAMBDA split :
                    /\ split[1] \in DOMAIN open_orders
                    /\ In(open_orders[split[1]], ref))
    IN [i \in 1..Len(mine) |-> mine[i][2]]

\* C26: whatever list of splits process_splits is given, every order has
\* handle_split applied once for each entry of the list that is for a sid
\* it is open for, in the order of the list, and for no other entry.
C26_WholeListProcessed ==
    \A splits \in SplitLists :
        \A ref \in 1..Len(objects) :
            BlotterProcessSplits(Blotter, splits).objects[ref].splits =
                objects[ref].splits \o RatiosFor(ref, splits)

\* The orders of the lists of open_orders of a blotter.
InOpenOrders(b) ==
    {ref \in 1..Len(b.objects) :
        \E sid \in DOMAIN b.open_orders : In(b.open_orders[sid], ref)}

\* C27: when get_transactions returns, each transaction has added its amount
\* to the filled quantity of its order, every order a transaction of the
\* call filled to completion is out of open_orders, every order that was in
\* open_orders and is still open is in the list of its sid, and no key of
\* open_orders maps to an empty list.
C27_OpenOrdersAccurate ==
    \A txns \in SlippageTxns(Blotter) :
        LET b == BlotterGetTransactions(Blotter, txns)
        IN /\ \A i \in 1..Len(txns) :
                 /\ b.objects[txns[i].order].filled =
                        objects[txns[i].order].filled + txns[i].amount
                 /\ ~OrderOpen(b.objects[txns[i].order]) =>
                        txns[i].order \notin InOpenOrders(b)
           /\ \A ref \in InOpenOrders(Blotter) :
                 OrderOpen(b.objects[ref]) =>
                    /\ b.objects[ref].sid \in DOMAIN b.open_orders
                    /\ In(b.open_orders[b.objects[ref].sid], ref)
           /\ \A sid \in DOMAIN b.open_orders : Len(b.open_orders[sid]) # 0

\* get_transactions has filled one order of a sid to completion and taken
\* it out, its key deleted, and has filled a share of an order of the other
\* sid, which stays in its list.
C27_Witness ==
    \E done, part \in 1..Len(objects) :
        /\ OrderStatus(objects[done]) = "FILLED"
        /\ objects[done].sid \notin DOMAIN open_orders
        /\ objects[part].filled = 1
        /\ OrderOpen(objects[part])
        /\ objects[part].sid \in DOMAIN open_orders
        /\ In(open_orders[objects[part].sid], part)

\* The number of shares of an amount, bought or sold.
Shares(amount) == IF amount < 0 THEN 0 - amount ELSE amount

\* No order of more than max_shares shares is recorded.
C28_NoneOverLimit ==
    \A ref \in 1..Len(objects) : Shares(objects[ref].amount) <= max_shares

\* A call of more than max_shares shares, bought or sold, raises
\* OverflowError, and one of no share returns no order id.
C28_Outcome ==
    lastOp.op = "order" =>
        /\ Shares(lastOp.amount) > max_shares => lastOp.error = "OverflowError"
        /\ lastOp.amount = 0 => lastOp.error = "none" /\ lastOp.result = None

\* Such calls leave open_orders, orders and new_orders as they were.
C28_NothingRecorded ==
    (lastOp'.op = "order" /\ (Shares(lastOp'.amount) > max_shares \/ lastOp'.amount = 0)) =>
        UNCHANGED <<open_orders, orders, new_orders>>

\* C28: no order of more than max_shares shares, bought or sold, is ever
\* recorded: the call raises OverflowError and leaves open_orders, orders
\* and new_orders unchanged, and a call with amount 0 returns no order id
\* and leaves them unchanged too.
C28_ShareLimit ==
    [](C28_NoneOverLimit /\ C28_Outcome) /\ [][C28_NothingRecorded]_vars

\* After execute_cancel_policy(dt, event), no order left in open_orders
\* satisfies should_cancel(dt, event).
C29_NoneLeft ==
    lastOp.op = "execute_cancel_policy" =>
        \A ref \in InOpenOrders(Blotter) : ~ShouldCancel(objects[ref], lastOp.event)

\* Every open order for which should_cancel held at the call has been
\* cancelled and is in new_orders.
C29_AllCancelled ==
    lastOp'.op = "execute_cancel_policy" =>
        \A ref \in InOpenOrders(Blotter) :
            (OrderOpen(objects[ref]) /\ ShouldCancel(objects[ref], lastOp'.event)) =>
                /\ objects'[ref].status = "CANCELLED"
                /\ In(new_orders', ref)

\* C29: execute_cancel_policy is complete: when it returns no order left in
\* open_orders satisfies should_cancel, and every open order for which it
\* held at the call is cancelled and in new_orders, several consecutive
\* cancellable orders of one sid included.
C29_CancelPolicyComplete == [](C29_NoneLeft) /\ [][C29_AllCancelled]_vars

\* Every order in open_orders[sid] is registered in orders under its id.
Registered ==
    \A sid \in DOMAIN open_orders :
        \A i \in 1..Len(open_orders[sid]) :
            /\ objects[open_orders[sid][i]].id \in DOMAIN orders
            /\ orders[objects[open_orders[sid][i]].id] = open_orders[sid][i]

\* Every order in open_orders[sid] has that sid and is still open.
OfSidAndOpen ==
    \A sid \in DOMAIN open_orders :
        \A i \in 1..Len(open_orders[sid]) :
            /\ objects[open_orders[sid][i]].sid = sid
            /\ OrderOpen(objects[open_orders[sid][i]])
            /\ objects[open_orders[sid][i]].status \notin {"CANCELLED", "REJECTED"}

\* No member of the list stands in it twice.
Once(list) == \A i, j \in 1..Len(list) : list[i] = list[j] => i = j

\* No order is twice in open_orders or twice in new_orders.
NoneTwice ==
    /\ \A sid \in DOMAIN open_orders : Once(open_orders[sid])
    /\ Once(new_orders)

\* cancel, reject or hold with an unknown order id changes nothing.
UnknownIdIgnored ==
    \A order_id \in KnownOrUnknownIds \ DOMAIN orders :
        /\ BlotterCancel(Blotter, order_id) = Blotter
        /\ BlotterReject(Blotter, order_id) = Blotter
        /\ BlotterHold(Blotter, order_id) = Blotter

\* No order was placed under the id of another order.
IdsOfTheirOwn ==
    \A ref, other \in 1..Len(objects) : objects[ref].id = objects[other].id => ref = other

NotYetKnown(sid) ==
    {i \in 1..Len(args.events_by_sid[sid]) :
        /\ args.events_by_sid[sid][i].ed <= date_index[LastDate - 1]
        /\ args.events_by_sid[sid][i].kd > date_index[LastDate - 1]}

\* The events without the i-th.
Without(events, i) == SubSeq(events, 1, i - 1) \o SubSeq(events, i + 1, Len(events))

\* C31: previous_event_frame with an event whose event date is on or before
\* the last date of date_index and whose knowledge date is after it does
\* not raise, and returns the frame it returns without that event.
C31_NotYetKnownEvent ==
    (out.done /\ args.op = "previous_event_frame") =>
        \A sid \in FrameSids :
            \A i \in NotYetKnown(sid) :
                /\ out.error = "none"
                /\ out = PreviousEventFrameOf(
                             [args.events_by_sid EXCEPT ![sid] = Without(@, i)],
                             args.missing_value)
====
